---- MODULE Spec2Model ----
(***************************************************************************)
(* Model of the texture replacement core of EVR_Texture_Editor.py:         *)
(* DDSHandler.get_dds_info, ASTCTools.encode_texture / encode_with_cache / *)
(* pad_to_size, TextureReplacer.convert_to_dds / hex_edit_file_size /      *)
(* replace_pcvr_texture / replace_quest_texture, and the orchestration in  *)
(* EchoVRTextureViewer.replace_texture.                                    *)
(*                                                                         *)
(* Files are byte sequences, the file system is a function from paths to   *)
(* byte sequences, and the external tools (texconv, astcenc) are           *)
(* nondeterministic choices over the outcomes their command line contract  *)
(* allows.                                                                 *)
(***************************************************************************)
EXTENDS Integers, Sequences, FiniteSets, TLC

VARIABLES
    fs,            \* file system: path -> bytes
    DECODE_CACHE,  \* module global DECODE_CACHE: key -> record
    mapping,       \* content of MAPPING_FILE: key -> [width, height]
    job,           \* the run's inputs: platform, replacement, size, selection
    worker,        \* per worker thread: position and locals of its call
    results,       \* texture -> result returned by the engine for it
    calls,         \* engine calls made so far, with their arguments
    codecLog,      \* external codec invocations made so far
    gui            \* EchoVRTextureViewer.replace_texture: phase, futures, results list

vars == <<fs, DECODE_CACHE, mapping, job, worker, results, calls, codecLog, gui>>

-----------------------------------------------------------------------------
(* Bounds *)

NumWorkers == 2      \* worker threads calling the engine at once
MaxSelect == 2       \* textures selected for one engine run
MaxPick == 4         \* list entries selected for one Replace Texture click

Workers == 1..NumWorkers

-----------------------------------------------------------------------------
(* Program constants *)

SIZE_FIELD_OFFSET == 244     \* data[244:248]
MIN_DESCRIPTOR_LEN == 248    \* len(data) >= 248
DDS_HEADER_LEN == 124        \* f.read(124)
ASTC_HEADER_LEN == 16        \* astc_data[16:]
DEFAULT_BLOCK == 8           \* replace_quest_texture passes 8, 8
TWO16 == 65536               \* struct.pack('<I', n) takes n with n // 2**16 < 2**16
POOL_THRESHOLD == 3          \* len(selection) > 3
POOL_MAX == 4                \* min(4, ...)
CPU_COUNT == 2               \* (os.cpu_count() or 2)

-----------------------------------------------------------------------------
(* Python values that cross the engine boundary untyped *)

PyNone == [t |-> "none", v |-> 0]
PyInt(n) == [t |-> "int", v |-> n]
PyStr(p) == [t |-> "str", v |-> p]
PyDict == [t |-> "dict", v |-> 0]

-----------------------------------------------------------------------------
(* Paths: a path is a sequence of components, a component has a stem (a   *)
(* sequence of string parts, so that formatted names can be built) and an *)
(* extension.                                                              *)

Comp(stem, ext) == [stem |-> stem, ext |-> ext]
Dir(name) == Comp(<<name>>, "")
join(p, c) == Append(p, c)
basename(p) == p[Len(p)]
splitext0(c) == c.stem
lower(ext) == IF ext = ".DDS" THEN ".dds" ELSE ext
endswith_dds(p) == lower(basename(p).ext) = ".dds"

exists(fsys, p) == p \in DOMAIN fsys
\* os.path.getsize.  A file's bytes are a sequence; a last element -n
\* stands for n further zero bytes, so that a blob of half a megabyte is
\* one element long.
getsize(fsys, p) ==
    LET data == fsys[p]
    IN IF data # <<>> /\ data[Len(data)] < 0 THEN Len(data) - 1 - data[Len(data)]
       ELSE Len(data)
write(fsys, p, data) == [q \in (DOMAIN fsys) \cup {p} |-> IF q = p THEN data ELSE fsys[q]]
remove(fsys, p) == [q \in (DOMAIN fsys) \ {p} |-> fsys[q]]

TEMP == <<Dir("tmp")>>                     \* tempfile.gettempdir()
PID == "pid"                               \* os.getpid(), one process

-----------------------------------------------------------------------------
(* Bytes *)

pack_I(n) == <<n % 256, (n \div 256) % 256, (n \div 65536) % 256, (n \div 16777216) % 256>>
packable_I(n) == n >= 0 /\ n \div TWO16 < TWO16
unpack_I(b, off) == b[off + 1] + 256 * b[off + 2] + 65536 * b[off + 3] + 16777216 * b[off + 4]
Slice(b, lo, hi) == IF hi > lo THEN SubSeq(b, lo + 1, IF hi < Len(b) THEN hi ELSE Len(b)) ELSE <<>>
Zeros(n) == [i \in 1..n |-> 0]

DDS_MAGIC == <<68, 68, 83, 32>>            \* b'DDS '
ASTC_MAGIC == <<19, 171, 161, 92>>         \* b'\x13\xAB\xA1\x5C'
PNG_MAGIC == <<137, 80, 78, 71>>

-----------------------------------------------------------------------------
(* DDSHandler.get_dds_info: None unless the file opens, starts with the   *)
(* signature and has a full 124 byte header after it.                      *)

NoInfo == [ok |-> FALSE, width |-> 0, height |-> 0, mipmaps |-> 0, file_size |-> 0]

\* parse_dds with the offsets of height and width exchanged
parse_dds_swapped(data) ==
    IF Slice(data, 0, 4) # DDS_MAGIC THEN NoInfo
    ELSE LET header == Slice(data, 4, 4 + DDS_HEADER_LEN)
         IN IF Len(header) < DDS_HEADER_LEN THEN NoInfo
            ELSE [ok |-> TRUE,
                  height |-> unpack_I(header, 12),
                  width |-> unpack_I(header, 8),
                  mipmaps |-> unpack_I(header, 24),
                  file_size |-> Len(data)]

parse_dds(data) ==
    IF Slice(data, 0, 4) # DDS_MAGIC THEN NoInfo
    ELSE LET header == Slice(data, 4, 4 + DDS_HEADER_LEN)
         IN IF Len(header) < DDS_HEADER_LEN THEN NoInfo
            ELSE [ok |-> TRUE,
                  height |-> unpack_I(header, 8),
                  width |-> unpack_I(header, 12),
                  mipmaps |-> unpack_I(header, 24),
                  file_size |-> Len(data)]

get_dds_info(fsys, p) == IF exists(fsys, p) THEN parse_dds(fsys[p]) ELSE NoInfo

-----------------------------------------------------------------------------
(* TextureReplacer.hex_edit_file_size: result flag and resulting file     *)
(* system.  struct.pack raises before anything is written when the size    *)
(* does not fit an unsigned 32 bit integer.                                *)

\* patch_bytes with the size written most significant byte first
patch_bytes_big_endian(data, new_size) ==
    [i \in 1..Len(data) |->
        IF i > SIZE_FIELD_OFFSET /\ i <= SIZE_FIELD_OFFSET + 4
        THEN pack_I(new_size)[SIZE_FIELD_OFFSET + 5 - i]
        ELSE data[i]]

patch_bytes(data, new_size) ==
    [i \in 1..Len(data) |->
        IF i > SIZE_FIELD_OFFSET /\ i <= SIZE_FIELD_OFFSET + 4
        THEN pack_I(new_size)[i - SIZE_FIELD_OFFSET]
        ELSE data[i]]

\* hex_edit_file_size without the length check and with the size reduced
\* modulo 2^32 instead of rejected
hex_edit_file_size_unchecked(fsys, p, new_size) ==
    IF ~exists(fsys, p) THEN [ok |-> FALSE, fs |-> fsys]
    ELSE [ok |-> TRUE,
          fs |-> write(fsys, p, patch_bytes(fsys[p], IF new_size < 0 THEN new_size + TWO16 ELSE new_size))]

hex_edit_file_size(fsys, p, new_size) ==
    IF ~exists(fsys, p) THEN [ok |-> FALSE, fs |-> fsys]
    ELSE LET data == fsys[p]
         IN IF Len(data) >= MIN_DESCRIPTOR_LEN
            THEN IF packable_I(new_size)
                 THEN [ok |-> TRUE, fs |-> write(fsys, p, patch_bytes(data, new_size))]
                 ELSE [ok |-> FALSE, fs |-> fsys]
            ELSE [ok |-> FALSE, fs |-> fsys]

-----------------------------------------------------------------------------
(* ASTCTools.calculate_astc_size and pad_to_size *)

\* calculate_astc_size with the block counts rounded down
calculate_astc_size_floor(width, height, block_w, block_h) ==
    (width \div block_w) * (height \div block_h) * 16

calculate_astc_size(width, height, block_w, block_h) ==
    LET blocks_x == (width + block_w - 1) \div block_w
        blocks_y == (height + block_h - 1) \div block_h
    IN blocks_x * blocks_y * 16

\* pad_to_size without the truncating branch
pad_to_size_pad_only(data, target_size) ==
    IF Len(data) < target_size THEN data \o Zeros(target_size - Len(data)) ELSE data

\* data[:target_size]; a negative target_size counts from the end
pad_to_size(data, target_size) ==
    LET current_size == Len(data)
    IN IF current_size < target_size THEN data \o Zeros(target_size - current_size)
       ELSE IF current_size > target_size
       THEN Slice(data, 0, IF target_size < 0 THEN current_size + target_size ELSE target_size)
       ELSE data

-----------------------------------------------------------------------------
(* Files the runs start from.  Textures live under the rebuild-output     *)
(* tree, next to their descriptors; the replacement image is a user file. *)

Body(n) == [i \in 1..n |-> 1 + (i % 200)]

MkDDS(w, h, mips, bodyLen) ==
    LET header == [i \in 1..DDS_HEADER_LEN |->
                      IF i > 8 /\ i <= 12 THEN pack_I(h)[i - 8]
                      ELSE IF i > 12 /\ i <= 16 THEN pack_I(w)[i - 12]
                      ELSE IF i > 24 /\ i <= 28 THEN pack_I(mips)[i - 24]
                      ELSE 0]
    IN DDS_MAGIC \o header \o Body(bodyLen)

MkPNG(w, h) ==
    PNG_MAGIC \o <<13, 10, 26, 10, 0, 0, 0, 13, 73, 72, 68, 82>>
        \o <<0, 0, w \div 256, w % 256>> \o <<0, 0, h \div 256, h % 256>> \o Body(8)

MkDescriptor(n, oldSize) ==
    [i \in 1..n |->
        IF i > SIZE_FIELD_OFFSET /\ i <= SIZE_FIELD_OFFSET + 4
        THEN pack_I(oldSize)[i - SIZE_FIELD_OFFSET]
        ELSE 1 + ((i * 3) % 250)]

OUT == <<Dir("output")>>                   \* rebuild-output tree
PCVR_IN == <<Dir("input-pcvr")>>           \* staging tree, desktop
QUEST_IN == <<Dir("input-quest")>>         \* staging tree, mobile
USER == <<Dir("user")>>

PCVR_TEXTURES == "beac1969cb7b8861"
PCVR_CORRESPONDING == "4a4c32c49300b8a0"
QUEST_TEXTURES == "489b7b69cb19e0e9"
QUEST_CORRESPONDING == "e2ef0854d0cd69b8"

PcvrTex == {"t1", "t2", "t3", "t4", "t5"}
QuestTex == {"q1", "q2", "q3", "q4", "q5"}
Tex == PcvrTex \cup QuestTex

TexStem(t) == IF t = "q5" THEN <<"q5", "_d">> ELSE <<t>>
TexName(t) == IF t \in PcvrTex THEN Comp(TexStem(t), ".dds") ELSE Comp(TexStem(t), "")
TexPath(t) == IF t \in PcvrTex
              THEN join(join(OUT, Dir(PCVR_TEXTURES)), TexName(t))
              ELSE join(join(OUT, Dir(QUEST_TEXTURES)), TexName(t))
OutDescriptor(t) == IF t \in PcvrTex
                    THEN join(join(OUT, Dir(PCVR_CORRESPONDING)), TexName(t))
                    ELSE join(join(OUT, Dir(QUEST_CORRESPONDING)), TexName(t))
StagedPayload(t) == IF t \in PcvrTex
                    THEN join(join(PCVR_IN, Dir(PCVR_TEXTURES)), TexName(t))
                    ELSE join(join(QUEST_IN, Dir(QUEST_TEXTURES)), TexName(t))
StagedDescriptor(t) == IF t \in PcvrTex
                       THEN join(join(PCVR_IN, Dir(PCVR_CORRESPONDING)), TexName(t))
                       ELSE join(join(QUEST_IN, Dir(QUEST_CORRESPONDING)), TexName(t))

SKIN_PNG == join(USER, Comp(<<"skin">>, ".png"))
SKIN_DDS == join(USER, Comp(<<"skin">>, ".dds"))
BAD_DDS == join(USER, Comp(<<"bad">>, ".DDS"))

TexFiles ==
    (TexPath("t1") :> MkDDS(4, 4, 1, 16)) @@ (OutDescriptor("t1") :> MkDescriptor(250, 144))
 @@ (TexPath("t2") :> MkDDS(8, 4, 1, 32)) @@ (OutDescriptor("t2") :> MkDescriptor(248, 160))
 @@ (TexPath("t3") :> MkDDS(4, 4, 1, 16)) @@ (OutDescriptor("t3") :> MkDescriptor(247, 144))
 @@ (TexPath("t4") :> MkDDS(4, 4, 1, 16))
 @@ (TexPath("t5") :> Slice(MkDDS(4, 4, 1, 0), 0, 100)) @@ (OutDescriptor("t5") :> MkDescriptor(250, 100))
 @@ (TexPath("q1") :> Body(32)) @@ (OutDescriptor("q1") :> MkDescriptor(250, 32))
 @@ (TexPath("q2") :> Body(32)) @@ (OutDescriptor("q2") :> MkDescriptor(250, 32))
 @@ (TexPath("q3") :> Body(32)) @@ (OutDescriptor("q3") :> MkDescriptor(250, 32))
 @@ (TexPath("q4") :> <<>>) @@ (OutDescriptor("q4") :> MkDescriptor(250, 0))
 @@ (TexPath("q5") :> Body(32)) @@ (OutDescriptor("q5") :> MkDescriptor(250, 32))

UserFiles ==
    (SKIN_PNG :> MkPNG(2, 2)) @@ (SKIN_DDS :> MkDDS(4, 4, 1, 16)) @@ (BAD_DDS :> Body(10))

InitFiles == TexFiles @@ UserFiles

InitCache == (<<"q1">> :> [width |-> 8, height |-> 4, block_w |-> 4, block_h |-> 4, original_size |-> 32])

InitMapping ==
    (<<"q1">> :> [width |-> 8, height |-> 8]) @@ (<<"q2">> :> [width |-> 8, height |-> 8])
 @@ (<<"q4">> :> [width |-> 4, height |-> 4]) @@ (<<"q5">> :> [width |-> 8, height |-> 4])

-----------------------------------------------------------------------------
(* External tools and libraries *)

\* PIL Image.open(...).convert("RGBA"): the size of the decoded image.
ImageOpen(fsys, p) ==
    IF ~exists(fsys, p) THEN [ok |-> FALSE, width |-> 0, height |-> 0]
    ELSE LET data == fsys[p]
         IN IF Slice(data, 0, 4) = PNG_MAGIC /\ Len(data) >= 24
            THEN [ok |-> TRUE,
                  width |-> 256 * data[19] + data[20],
                  height |-> 256 * data[23] + data[24]]
            ELSE IF parse_dds(data).ok
            THEN [ok |-> TRUE, width |-> parse_dds(data).width, height |-> parse_dds(data).height]
            ELSE [ok |-> FALSE, width |-> 0, height |-> 0]

\* texconv encode <png> <dds>: a headered blob of the png's dimensions.
TexconvEncode(w, h) == MkDDS(w, h, 1, w * h)

\* astcenc -cl: what the codec may leave in the output file when it exits 0.
AstcFile(block_w, block_h, n) ==
    ASTC_MAGIC \o <<block_w, block_h, 1>> \o <<2, 0, 0, 2, 0, 0, 1, 0, 0>> \o Body(n)

AstcOutputs(block_w, block_h) ==
    {<<>>, Body(10)} \cup {AstcFile(block_w, block_h, n) : n \in {16, 32, 48}}

-----------------------------------------------------------------------------
(* State of a worker thread and of a result *)

NoArgs == [output_folder |-> <<>>, input_folder |-> <<>>, original_texture_path |-> <<>>,
           replacement_texture_path |-> PyNone, fifth |-> PyNone, nargs |-> 0]

IdleWorker == [pc |-> "idle", tex |-> "", args |-> NoArgs, dds_path |-> <<>>,
               size |-> 0, width |-> 0, height |-> 0, block_w |-> 0, block_h |-> 0,
               target_size |-> PyNone, temp_output |-> <<>>]

NoResult == [done |-> FALSE, ok |-> FALSE, msg |-> ""]
Result(ok, msg) == [done |-> TRUE, ok |-> ok, msg |-> msg]

Busy(t) == \E w \in Workers : worker[w].pc # "idle" /\ worker[w].tex = t

Return(w, ok, msg) ==
    /\ results' = [results EXCEPT ![worker[w].tex] = Result(ok, msg)]
    /\ worker' = [worker EXCEPT ![w] = IdleWorker]

-----------------------------------------------------------------------------
(* TextureReplacer.replace_pcvr_texture, lines 1510-1526: what the call   *)
(* decides before it touches the staging tree.                             *)

replace_pcvr_texture_entry(fsys, a) ==
    LET orig_info == get_dds_info(fsys, a.original_texture_path)
    IN IF ~orig_info.ok
       THEN [kind |-> "return", ok |-> FALSE, msg |-> "Could not read original texture dimensions"]
       ELSE IF a.replacement_texture_path.t # "str"
       THEN \* .lower() on a value that is not a string raises, caught at line 1551
            [kind |-> "return", ok |-> FALSE, msg |-> "PCVR replacement error"]
       ELSE LET rp == a.replacement_texture_path.v
                target_w == orig_info.width
                target_h == orig_info.height
                is_dds == endswith_dds(rp) /\ exists(fsys, rp)
                repl_info == IF is_dds THEN get_dds_info(fsys, rp) ELSE NoInfo
                needs_convert == ~is_dds \/ (repl_info.ok /\ (repl_info.width # target_w
                                                              \/ repl_info.height # target_h))
            IN IF needs_convert \/ ~is_dds
               THEN [kind |-> "convert", width |-> target_w, height |-> target_h]
               ELSE [kind |-> "reuse", width |-> target_w, height |-> target_h,
                     size |-> IF a.fifth.t = "none" THEN getsize(fsys, rp) ELSE a.fifth.v]

PcvrArgs(t) ==
    [output_folder |-> OUT, input_folder |-> PCVR_IN, original_texture_path |-> TexPath(t),
     replacement_texture_path |-> PyStr(job.replacement), fifth |-> job.replacement_size,
     nargs |-> 5]

Start(w, t, a, e) ==
    IF e.kind = "return"
    THEN /\ results' = [results EXCEPT ![t] = Result(e.ok, e.msg)]
         /\ UNCHANGED worker
    ELSE /\ worker' = [worker EXCEPT ![w] =
                [IdleWorker EXCEPT !.pc = IF e.kind = "convert" THEN "convert" ELSE "copy",
                                   !.tex = t, !.args = a,
                                   !.width = e.width, !.height = e.height,
                                   !.dds_path = IF e.kind = "reuse"
                                                THEN a.replacement_texture_path.v ELSE <<>>,
                                   !.size = IF e.kind = "reuse" THEN e.size ELSE 0]]
         /\ UNCHANGED results

replace_pcvr_texture(w) ==
    /\ worker[w].pc = "idle"
    /\ ~job.is_quest
    /\ \E t \in job.selection :
          /\ ~results[t].done /\ ~Busy(t)
          /\ LET a == PcvrArgs(t)
             IN /\ calls' = calls \cup {[fn |-> "replace_pcvr_texture", tex |-> t, args |-> a]}
                /\ Start(w, t, a, replace_pcvr_texture_entry(fs, a))
    /\ UNCHANGED <<fs, DECODE_CACHE, mapping, job, codecLog, gui>>

-----------------------------------------------------------------------------
(* TextureReplacer.convert_to_dds: resize, run texconv in a private       *)
(* temporary directory, copy the output to final_path.                     *)

final_path(source_path) ==
    join(TEMP, Comp(<<"pcvr_replace_", PID, "_">> \o splitext0(basename(source_path)), ".dds"))

ConversionFailed(w) == Return(w, FALSE, "DDS conversion via texconv.exe failed. Check tool and file paths.")

TexconvCall(w, img) ==
    [tool |-> "texconv", tex |-> worker[w].tex,
     width |-> IF img.width # worker[w].width \/ img.height # worker[w].height
               THEN worker[w].width ELSE img.width,
     height |-> IF img.width # worker[w].width \/ img.height # worker[w].height
                THEN worker[w].height ELSE img.height,
     block_w |-> 0, block_h |-> 0, target_size |-> PyNone]

convert_to_dds(w) ==
    /\ worker[w].pc = "convert"
    /\ LET source_path == worker[w].args.replacement_texture_path.v
           img == ImageOpen(fs, source_path)
       IN \/ \* texconv.exe missing, or the image does not open
             /\ ConversionFailed(w)
             /\ UNCHANGED <<fs, codecLog>>
          \/ \* texconv exits nonzero or leaves no output file
             /\ img.ok
             /\ codecLog' = codecLog \cup {TexconvCall(w, img)}
             /\ ConversionFailed(w)
             /\ UNCHANGED fs
          \/ /\ img.ok
             /\ LET c == TexconvCall(w, img)
                    out_dds == TexconvEncode(c.width, c.height)
                IN /\ codecLog' = codecLog \cup {c}
                   /\ fs' = write(fs, final_path(source_path), out_dds)
                   /\ worker' = [worker EXCEPT ![w].pc = "copy",
                                               ![w].dds_path = final_path(source_path),
                                               ![w].size = Len(out_dds)]
                   /\ UNCHANGED results
    /\ UNCHANGED <<DECODE_CACHE, mapping, job, calls, gui>>

-----------------------------------------------------------------------------
(* replace_pcvr_texture, lines 1528-1550 *)

input_texture_path(a, folder) == join(join(a.input_folder, Dir(folder)), basename(a.original_texture_path))
output_corresponding_file(a, folder) == join(join(a.output_folder, Dir(folder)), basename(a.original_texture_path))

\* shutil.copy2(dds_path, input_texture_path)
replace_pcvr_texture_copy(w) ==
    /\ worker[w].pc = "copy"
    /\ IF exists(fs, worker[w].dds_path)
       THEN /\ fs' = write(fs, input_texture_path(worker[w].args, PCVR_TEXTURES), fs[worker[w].dds_path])
            /\ worker' = [worker EXCEPT ![w].pc = "cleanup"]
            /\ UNCHANGED results
       ELSE /\ Return(w, FALSE, "PCVR replacement error")
            /\ UNCHANGED fs
    /\ UNCHANGED <<DECODE_CACHE, mapping, job, calls, codecLog, gui>>

\* os.remove(dds_path) when dds_path is the converted file
replace_pcvr_texture_cleanup(w) ==
    /\ worker[w].pc = "cleanup"
    /\ fs' = IF worker[w].dds_path # worker[w].args.replacement_texture_path.v
                /\ exists(fs, worker[w].dds_path)
             THEN remove(fs, worker[w].dds_path) ELSE fs
    /\ worker' = [worker EXCEPT ![w].pc = "descriptor"]
    /\ UNCHANGED <<DECODE_CACHE, mapping, job, results, calls, codecLog, gui>>

\* replace_pcvr_texture_descriptor patching the descriptor where it lies in
\* the rebuild-output tree and copying it afterwards
replace_pcvr_texture_descriptor_in_place(w) ==
    /\ worker[w].pc = "descriptor"
    /\ LET a == worker[w].args
           src == output_corresponding_file(a, PCVR_CORRESPONDING)
           dst == input_texture_path(a, PCVR_CORRESPONDING)
       IN IF exists(fs, src)
          THEN LET edit == hex_edit_file_size(fs, src, worker[w].size)
               IN /\ fs' = write(edit.fs, dst, edit.fs[src])
                  /\ IF edit.ok
                     THEN Return(w, TRUE, "PCVR texture replaced. Size updated")
                     ELSE Return(w, FALSE, "Failed to update file size")
          ELSE /\ Return(w, FALSE, "Corresponding file not found")
               /\ UNCHANGED fs
    /\ UNCHANGED <<DECODE_CACHE, mapping, job, calls, codecLog, gui>>

\* copy the descriptor from the rebuild-output tree and patch its size field
replace_pcvr_texture_descriptor(w) ==
    /\ worker[w].pc = "descriptor"
    /\ LET a == worker[w].args
           src == output_corresponding_file(a, PCVR_CORRESPONDING)
           dst == input_texture_path(a, PCVR_CORRESPONDING)
       IN IF exists(fs, src)
          THEN LET copied == write(fs, dst, fs[src])
                   edit == hex_edit_file_size(copied, dst, worker[w].size)
               IN /\ fs' = edit.fs
                  /\ IF edit.ok
                     THEN Return(w, TRUE, "PCVR texture replaced. Size updated")
                     ELSE Return(w, FALSE, "Failed to update file size")
          ELSE /\ Return(w, FALSE, "Corresponding file not found")
               /\ UNCHANGED fs
    /\ UNCHANGED <<DECODE_CACHE, mapping, job, calls, codecLog, gui>>

-----------------------------------------------------------------------------
(* TextureReplacer.replace_quest_texture, lines 1556-1584: parameters are *)
(* taken from DECODE_CACHE, else from the mapping with block size 8x8 and *)
(* the original file's size, else the call fails.                          *)

\* replace_quest_texture_entry consulting the mapping before the cache
replace_quest_texture_entry_mapping_first(fsys, cache, map, a) ==
    IF ~exists(fsys, a.original_texture_path)
    THEN [kind |-> "return", ok |-> FALSE, msg |-> "Quest replacement error"]
    ELSE LET texture_name_no_ext == splitext0(basename(a.original_texture_path))
             original_size == getsize(fsys, a.original_texture_path)
         IN IF texture_name_no_ext \in DOMAIN map
            THEN [kind |-> "encode", width |-> map[texture_name_no_ext].width,
                  height |-> map[texture_name_no_ext].height,
                  block_w |-> DEFAULT_BLOCK, block_h |-> DEFAULT_BLOCK,
                  target_size |-> PyInt(original_size)]
            ELSE IF texture_name_no_ext \in DOMAIN cache
            THEN LET config == cache[texture_name_no_ext]
                 IN [kind |-> "encode", width |-> config.width, height |-> config.height,
                     block_w |-> config.block_w, block_h |-> config.block_h,
                     target_size |-> PyInt(config.original_size)]
            ELSE [kind |-> "return", ok |-> FALSE, msg |-> "Failed to encode/find texture info"]

\* replace_quest_texture_entry looking the cache up under the name without
\* its channel suffix
replace_quest_texture_entry_base_key(fsys, cache, map, a) ==
    IF ~exists(fsys, a.original_texture_path)
    THEN [kind |-> "return", ok |-> FALSE, msg |-> "Quest replacement error"]
    ELSE LET original_size == getsize(fsys, a.original_texture_path)
             texture_name_no_ext == splitext0(basename(a.original_texture_path))
             base == IF Len(texture_name_no_ext) > 1
                     THEN SubSeq(texture_name_no_ext, 1, Len(texture_name_no_ext) - 1)
                     ELSE texture_name_no_ext
         IN IF base \in DOMAIN cache
            THEN [kind |-> "encode", width |-> cache[base].width, height |-> cache[base].height,
                  block_w |-> cache[base].block_w, block_h |-> cache[base].block_h,
                  target_size |-> PyInt(cache[base].original_size)]
            ELSE IF DOMAIN map # {} /\ texture_name_no_ext \in DOMAIN map
            THEN [kind |-> "encode", width |-> map[texture_name_no_ext].width,
                  height |-> map[texture_name_no_ext].height,
                  block_w |-> DEFAULT_BLOCK, block_h |-> DEFAULT_BLOCK,
                  target_size |-> PyInt(original_size)]
            ELSE [kind |-> "return", ok |-> FALSE, msg |-> "Failed to encode/find texture info"]

replace_quest_texture_entry(fsys, cache, map, a) ==
    IF ~exists(fsys, a.original_texture_path)
    THEN \* os.path.getsize raises, caught at line 1605
         [kind |-> "return", ok |-> FALSE, msg |-> "Quest replacement error"]
    ELSE LET texture_name == basename(a.original_texture_path)
             original_size == getsize(fsys, a.original_texture_path)
             texture_name_no_ext == splitext0(texture_name)
         IN IF texture_name_no_ext \in DOMAIN cache
            THEN LET config == cache[texture_name_no_ext]
                 IN [kind |-> "encode", width |-> config.width, height |-> config.height,
                     block_w |-> config.block_w, block_h |-> config.block_h,
                     target_size |-> PyInt(config.original_size)]
            ELSE IF DOMAIN map # {} /\ texture_name_no_ext \in DOMAIN map
            THEN [kind |-> "encode", width |-> map[texture_name_no_ext].width,
                  height |-> map[texture_name_no_ext].height,
                  block_w |-> DEFAULT_BLOCK, block_h |-> DEFAULT_BLOCK,
                  target_size |-> PyInt(original_size)]
            ELSE [kind |-> "return", ok |-> FALSE, msg |-> "Failed to encode/find texture info"]

temp_output(a) ==
    join(TEMP, Comp(<<"encoded_">> \o basename(a.original_texture_path).stem,
                    basename(a.original_texture_path).ext))

QuestArgs(t) ==
    [output_folder |-> OUT, input_folder |-> QUEST_IN, original_texture_path |-> TexPath(t),
     replacement_texture_path |-> PyStr(job.replacement), fifth |-> PyDict, nargs |-> 5]

replace_quest_texture(w) ==
    /\ worker[w].pc = "idle"
    /\ job.is_quest
    /\ \E t \in job.selection :
          /\ ~results[t].done /\ ~Busy(t)
          /\ LET a == QuestArgs(t)
                 e == replace_quest_texture_entry(fs, DECODE_CACHE, mapping, a)
             IN /\ calls' = calls \cup {[fn |-> "replace_quest_texture", tex |-> t, args |-> a]}
                /\ IF e.kind = "return"
                   THEN /\ results' = [results EXCEPT ![t] = Result(e.ok, e.msg)]
                        /\ UNCHANGED worker
                   ELSE /\ worker' = [worker EXCEPT ![w] =
                               [IdleWorker EXCEPT !.pc = "encode", !.tex = t, !.args = a,
                                                  !.width = e.width, !.height = e.height,
                                                  !.block_w = e.block_w, !.block_h = e.block_h,
                                                  !.target_size = e.target_size,
                                                  !.temp_output = temp_output(a)]]
                        /\ UNCHANGED results
    /\ UNCHANGED <<fs, DECODE_CACHE, mapping, job, codecLog, gui>>

-----------------------------------------------------------------------------
(* ASTCTools.encode_texture: the bytes written to output_file from what   *)
(* the codec left in its temporary file.                                    *)

truthy(x) == x.t # "none" /\ ~(x.t = "int" /\ x.v = 0)

encode_texture_payload(astc_data, target_size) ==
    LET raw_data == IF Len(astc_data) > ASTC_HEADER_LEN /\ Slice(astc_data, 0, 4) = ASTC_MAGIC
                    THEN Slice(astc_data, ASTC_HEADER_LEN, Len(astc_data))
                    ELSE astc_data
    IN IF truthy(target_size)
       THEN IF Len(raw_data) # target_size.v THEN pad_to_size(raw_data, target_size.v) ELSE raw_data
       ELSE raw_data

AstcCall(w) ==
    [tool |-> "astcenc", tex |-> worker[w].tex, width |-> worker[w].width,
     height |-> worker[w].height, block_w |-> worker[w].block_w, block_h |-> worker[w].block_h,
     target_size |-> worker[w].target_size]

encode_texture(w) ==
    /\ worker[w].pc = "encode"
    /\ codecLog' = codecLog \cup {AstcCall(w)}
    /\ \/ \* nonzero exit code or timeout
          /\ Return(w, FALSE, "Failed to encode/find texture info")
          /\ UNCHANGED fs
       \/ \E astc_data \in AstcOutputs(worker[w].block_w, worker[w].block_h) :
             /\ fs' = write(fs, worker[w].temp_output,
                            encode_texture_payload(astc_data, worker[w].target_size))
             /\ worker' = [worker EXCEPT ![w].pc = "stage"]
             /\ UNCHANGED results
    /\ UNCHANGED <<DECODE_CACHE, mapping, job, calls, gui>>

-----------------------------------------------------------------------------
(* replace_quest_texture, line 1586: dest_textures_folder is not a name   *)
(* bound anywhere in the module, so evaluating it raises NameError, which *)
(* the handler at line 1605 turns into a failure result.  Lines 1587-1604 *)
(* are never executed.                                                     *)

ModuleNames == {"DECODE_CACHE", "MAPPING_FILE", "CACHE_DIR", "input_textures_folder",
                "input_corresponding_folder", "temp_output", "texture_name"}

replace_quest_texture_stage(w) ==
    /\ worker[w].pc = "stage"
    /\ IF "dest_textures_folder" \in ModuleNames
       THEN LET a == worker[w].args
                final_size == getsize(fs, worker[w].temp_output)
                staged == write(fs, input_texture_path(a, QUEST_TEXTURES), fs[worker[w].temp_output])
                src == output_corresponding_file(a, QUEST_CORRESPONDING)
                dst == input_texture_path(a, QUEST_CORRESPONDING)
                patched == IF exists(staged, src)
                           THEN hex_edit_file_size(write(staged, dst, staged[src]), dst, final_size).fs
                           ELSE staged
            IN /\ fs' = remove(patched, worker[w].temp_output)
               /\ Return(w, TRUE, "Quest texture replaced. Size updated")
       ELSE /\ Return(w, FALSE, "Quest replacement error")
            /\ UNCHANGED fs
    /\ UNCHANGED <<DECODE_CACHE, mapping, job, calls, codecLog, gui>>

-----------------------------------------------------------------------------
(* Engine runs: one replacement image, a selection of textures of one     *)
(* platform, each texture replaced once, by up to NumWorkers threads.      *)

Selections(S) == {X \in SUBSET S : X # {} /\ Cardinality(X) <= MaxSelect}

PcvrReplacements ==
    {[p |-> SKIN_PNG, s |-> PyNone], [p |-> SKIN_DDS, s |-> PyNone],
     [p |-> SKIN_DDS, s |-> PyInt(17)], [p |-> SKIN_DDS, s |-> PyInt(-1)],
     [p |-> BAD_DDS, s |-> PyNone]}

Jobs ==
    {[is_quest |-> FALSE, replacement |-> r.p, replacement_size |-> r.s, selection |-> X] :
        r \in PcvrReplacements, X \in Selections(PcvrTex)}
    \cup
    {[is_quest |-> TRUE, replacement |-> SKIN_PNG, replacement_size |-> PyNone, selection |-> X] :
        X \in Selections(QuestTex)}

NoOutcome == [kind |-> "none", name |-> "", ok |-> FALSE, msg |-> ""]

GuiIdle == [phase |-> "idle", todo |-> <<>>, fut |-> [t \in Tex |-> "none"],
            outcome |-> [t \in Tex |-> NoOutcome], results |-> <<>>]

Init ==
    /\ fs = InitFiles
    /\ DECODE_CACHE = InitCache
    /\ mapping = InitMapping
    /\ job \in Jobs
    /\ worker = [w \in Workers |-> IdleWorker]
    /\ results = [t \in Tex |-> NoResult]
    /\ calls = {}
    /\ codecLog = {}
    /\ gui = GuiIdle

Next ==
    \E w \in Workers :
        \/ replace_pcvr_texture(w)
        \/ convert_to_dds(w)
        \/ replace_pcvr_texture_copy(w)
        \/ replace_pcvr_texture_cleanup(w)
        \/ replace_pcvr_texture_descriptor(w)
        \/ replace_quest_texture(w)
        \/ encode_texture(w)
        \/ replace_quest_texture_stage(w)

Spec == Init /\ [][Next]_vars

-----------------------------------------------------------------------------
(* Properties of the engine *)

Converted(w) == worker[w].pc \in {"copy", "cleanup", "descriptor"}
                /\ worker[w].dds_path # worker[w].args.replacement_texture_path.v
Reused(w) == worker[w].pc \in {"copy", "cleanup", "descriptor"}
             /\ worker[w].dds_path = worker[w].args.replacement_texture_path.v

\* C1: whenever replace_pcvr_texture has returned success for a texture, the
\* payload staging folder holds a payload under the texture's file name, the
\* descriptor staging folder holds the rebuild-output descriptor with only
\* its size field changed, and that size field equals the byte length of the
\* staged payload.
C1_SuccessStagesConsistentPair ==
    \A t \in PcvrTex :
        (results[t].done /\ results[t].ok) =>
            /\ exists(fs, StagedPayload(t))
            /\ exists(fs, StagedDescriptor(t))
            /\ Len(fs[StagedDescriptor(t)]) = Len(fs[OutDescriptor(t)])
            /\ \A i \in 1..Len(fs[OutDescriptor(t)]) :
                  (i <= SIZE_FIELD_OFFSET \/ i > SIZE_FIELD_OFFSET + 4)
                      => fs[StagedDescriptor(t)][i] = fs[OutDescriptor(t)][i]
            /\ unpack_I(fs[StagedDescriptor(t)], SIZE_FIELD_OFFSET) = Len(fs[StagedPayload(t)])

\* C2: whenever the headerless encode has succeeded with a resolved target
\* size, the payload it wrote has exactly that many bytes.
C2_EncodedPayloadHasTargetSize ==
    \A w \in Workers :
        (worker[w].pc = "stage" /\ worker[w].target_size.t = "int") =>
            Len(fs[worker[w].temp_output]) = worker[w].target_size.v

\* C3: the step of replace_quest_texture that follows a successful encode
\* stages the payload and the descriptor, patches the staged descriptor's
\* size field to the final payload length, and returns success.
C3_QuestStagesAfterEncode ==
    [][\A w \in Workers :
          (worker[w].pc = "stage" /\ worker'[w].pc = "idle") =>
              LET t == worker[w].tex
              IN /\ results'[t].ok
                 /\ exists(fs', StagedPayload(t))
                 /\ fs'[StagedPayload(t)] = fs[worker[w].temp_output]
                 /\ exists(fs', StagedDescriptor(t))
                 /\ unpack_I(fs'[StagedDescriptor(t)], SIZE_FIELD_OFFSET)
                        = Len(fs[worker[w].temp_output])]_vars

\* C4: when the descriptor copied for a texture is shorter than 248 bytes, or
\* the new size does not fit 4 bytes, the patch fails, the engine returns a
\* failure result, and the staged descriptor is byte for byte the copied one.
C4_RefusedPatchLeavesDescriptor ==
    [][\A w \in Workers :
          LET src == output_corresponding_file(worker[w].args, PCVR_CORRESPONDING)
              dst == input_texture_path(worker[w].args, PCVR_CORRESPONDING)
          IN (/\ worker[w].pc = "descriptor"
              /\ worker'[w].pc = "idle"
              /\ exists(fs, src)
              /\ (Len(fs[src]) < 248 \/ worker[w].size < 0 \/ worker[w].size \div 65536 >= 65536))
             => /\ results'[worker[w].tex].done
                /\ ~results'[worker[w].tex].ok
                /\ fs'[dst] = fs[src]]_vars

C4_Witness ==
    /\ job.replacement_size = PyInt(-1)
    /\ results["t1"].msg = "Failed to update file size"
    /\ results["t3"].msg = "Failed to update file size"
    /\ fs[StagedDescriptor("t1")] = fs[OutDescriptor("t1")]
    /\ Len(fs[StagedDescriptor("t3")]) = 247

\* C5: a successful patch of a descriptor of at least 248 bytes changes only
\* bytes 244..247, which become the new size in little-endian order; the
\* length and every other byte are unchanged.
C5_PatchChangesOnlySizeField ==
    [][\A w \in Workers :
          LET src == output_corresponding_file(worker[w].args, PCVR_CORRESPONDING)
              dst == input_texture_path(worker[w].args, PCVR_CORRESPONDING)
          IN (/\ worker[w].pc = "descriptor"
              /\ worker'[w].pc = "idle"
              /\ results'[worker[w].tex].ok)
             => /\ Len(fs'[dst]) = Len(fs[src])
                /\ \A i \in 1..Len(fs[src]) : (i < 245 \/ i > 248) => fs'[dst][i] = fs[src][i]
                /\ fs'[dst][245] = worker[w].size % 256
                /\ fs'[dst][246] = (worker[w].size \div 256) % 256
                /\ fs'[dst][247] = (worker[w].size \div 65536) % 256
                /\ fs'[dst][248] = worker[w].size \div 16777216]_vars

C5_Witness ==
    /\ results["t1"].ok
    /\ Len(fs[StagedDescriptor("t1")]) = 250
    /\ fs[StagedDescriptor("t1")] # fs[OutDescriptor("t1")]

\* C6: two calls in flight never have the same intermediate file: the
\* converted DDS and the encoded payload of a call are at paths no other
\* in-flight call uses.
C6_IntermediatePathsUnique ==
    \A w1, w2 \in Workers :
        (w1 # w2) =>
            /\ (Converted(w1) /\ Converted(w2)) => worker[w1].dds_path # worker[w2].dds_path
            /\ (worker[w1].pc \in {"encode", "stage"} /\ worker[w2].pc \in {"encode", "stage"})
                  => worker[w1].temp_output # worker[w2].temp_output

\* C9: the replacement is used unmodified only if it parses as a headered
\* blob whose width and height equal the original's; in every other case the
\* codec was run on an image of exactly the original's width and height.
C9_ReuseOnlyCompatibleBlob ==
    \A w \in Workers :
        LET orig == get_dds_info(fs, worker[w].args.original_texture_path)
            repl == get_dds_info(fs, worker[w].args.replacement_texture_path.v)
            compatible == repl.ok /\ repl.width = orig.width /\ repl.height = orig.height
        IN (worker[w].pc \in {"copy", "cleanup", "descriptor"}) =>
              /\ Reused(w) => compatible
              /\ ~compatible =>
                    [tool |-> "texconv", tex |-> worker[w].tex, width |-> orig.width,
                     height |-> orig.height, block_w |-> 0, block_h |-> 0,
                     target_size |-> PyNone] \in codecLog

AstcCallsFor(t) == {c \in codecLog : c.tool = "astcenc" /\ c.tex = t}

-----------------------------------------------------------------------------
(* EchoVRTextureViewer.replace_texture.  do_one passes four positional    *)
(* arguments: self.extracted_folder, the selected texture's path, the      *)
(* replacement image and, on the desktop platform, replacement_size.       *)
(* Python binds them to the callee's parameters by position.               *)

Returned(name, ok, msg) == [kind |-> "return", name |-> name, ok |-> ok, msg |-> msg]
Raised(msg) == [kind |-> "raise", name |-> "", ok |-> FALSE, msg |-> msg]
Continues(name) == [kind |-> "continue", name |-> name, ok |-> FALSE, msg |-> ""]

\* positional binding to (output_folder, <platform>_input_folder,
\* original_texture_path, replacement_texture_path, fifth parameter)
BindArgs(argv) ==
    [output_folder |-> argv[1].v, input_folder |-> argv[2].v,
     original_texture_path |-> argv[3].v, replacement_texture_path |-> argv[4],
     fifth |-> IF Len(argv) >= 5 THEN argv[5] ELSE PyNone, nargs |-> Len(argv)]

do_one_argv(t) ==
    IF job.is_quest
    THEN <<PyStr(OUT), PyStr(TexPath(t)), PyStr(job.replacement), PyDict>>
    ELSE <<PyStr(OUT), PyStr(TexPath(t)), PyStr(job.replacement), job.replacement_size>>

do_one_call(t) ==
    [fn |-> IF job.is_quest THEN "replace_quest_texture" ELSE "replace_pcvr_texture",
     tex |-> t, args |-> BindArgs(do_one_argv(t))]

do_one(t) ==
    LET a == BindArgs(do_one_argv(t))
    IN IF job.is_quest
       THEN IF a.nargs < 5
            THEN Raised("replace_quest_texture() missing 1 required positional argument: 'texture_cache'")
            ELSE LET e == replace_quest_texture_entry(fs, DECODE_CACHE, mapping, a)
                 IN IF e.kind = "return" THEN Returned(t, e.ok, e.msg) ELSE Continues(t)
       ELSE LET e == replace_pcvr_texture_entry(fs, a)
            IN IF e.kind = "return" THEN Returned(t, e.ok, e.msg) ELSE Continues(t)

ListOrder == <<"t1", "t2", "t3", "t4", "t5", "q1", "q2", "q3", "q4", "q5">>

RECURSIVE InOrder(_, _)
InOrder(S, i) ==
    IF i > Len(ListOrder) THEN <<>>
    ELSE IF ListOrder[i] \in S THEN <<ListOrder[i]>> \o InOrder(S, i + 1)
    ELSE InOrder(S, i + 1)

Min(a, b) == IF a < b THEN a ELSE b
max_workers == Min(Min(POOL_MAX, Cardinality(job.selection)), CPU_COUNT + 1)

EngineFrame == UNCHANGED <<fs, DECODE_CACHE, mapping, job, worker, results, codecLog>>

\* lines 2812-2840: the click; a multi-selection is confirmed or declined
replace_texture ==
    /\ gui.phase = "idle"
    /\ \/ /\ Cardinality(job.selection) > 1
          /\ gui' = [gui EXCEPT !.phase = "declined"]
       \/ IF Cardinality(job.selection) > POOL_THRESHOLD
          THEN gui' = [gui EXCEPT !.phase = "pool",
                                  !.fut = [t \in Tex |-> IF t \in job.selection
                                                         THEN "pending" ELSE "none"]]
          ELSE gui' = [gui EXCEPT !.phase = "sequential", !.todo = InOrder(job.selection, 1)]
    /\ UNCHANGED calls
    /\ EngineFrame

\* lines 2847-2848: results.append(do_one(index)); an exception leaves the handler
replace_texture_sequential ==
    /\ gui.phase = "sequential"
    /\ gui.todo # <<>>
    /\ LET t == Head(gui.todo)
           o == do_one(t)
       IN /\ o.kind # "continue"
          /\ calls' = calls \cup {do_one_call(t)}
          /\ gui' = IF o.kind = "raise"
                    THEN [gui EXCEPT !.phase = "raised", !.outcome[t] = o]
                    ELSE [gui EXCEPT !.todo = Tail(gui.todo), !.outcome[t] = o,
                                     !.results = Append(gui.results, o)]
    /\ EngineFrame

\* line 2840: a pool thread takes a submitted task
pool_take(t) ==
    /\ gui.phase = "pool"
    /\ gui.fut[t] = "pending"
    /\ Cardinality({u \in Tex : gui.fut[u] = "running"}) < max_workers
    /\ gui' = [gui EXCEPT !.fut[t] = "running"]
    /\ UNCHANGED calls
    /\ EngineFrame

\* the task runs do_one; the future holds its result or its exception
pool_run(t) ==
    /\ gui.phase = "pool"
    /\ gui.fut[t] = "running"
    /\ do_one(t).kind # "continue"
    /\ calls' = calls \cup {do_one_call(t)}
    /\ gui' = [gui EXCEPT !.fut[t] = "finished", !.outcome[t] = do_one(t)]
    /\ EngineFrame

\* lines 2841-2845: as_completed; f.result() re-raises and the handler
\* appends (None, (False, str(e)))
pool_collect(t) ==
    /\ gui.phase = "pool"
    /\ gui.fut[t] = "finished"
    /\ gui' = [gui EXCEPT !.fut[t] = "collected",
                          !.results = Append(gui.results,
                              IF gui.outcome[t].kind = "raise"
                              THEN Returned("None", FALSE, gui.outcome[t].msg)
                              ELSE gui.outcome[t])]
    /\ UNCHANGED calls
    /\ EngineFrame

\* lines 2850-2863: log every result and show the summary
replace_texture_summary ==
    /\ \/ gui.phase = "sequential" /\ gui.todo = <<>>
       \/ gui.phase = "pool" /\ \A t \in job.selection : gui.fut[t] = "collected"
    /\ gui' = [gui EXCEPT !.phase = "done"]
    /\ UNCHANGED calls
    /\ EngineFrame

Picks(S) == {X \in SUBSET S : X # {} /\ Cardinality(X) <= MaxPick}

\* replacement_size is replacement_info['file_size'] once the replacement
\* has been displayed, None before
AppReplacements ==
    UNION {{[p |-> q, s |-> PyNone], [p |-> q, s |-> PyInt(Len(InitFiles[q]))]} :
              q \in {SKIN_PNG, SKIN_DDS, BAD_DDS}}

AppJobs ==
    {[is_quest |-> FALSE, replacement |-> r.p, replacement_size |-> r.s, selection |-> X] :
        r \in AppReplacements, X \in Picks(PcvrTex)}
    \cup
    {[is_quest |-> TRUE, replacement |-> SKIN_PNG, replacement_size |-> PyNone, selection |-> X] :
        X \in Picks(QuestTex)}

InitApp ==
    /\ fs = InitFiles
    /\ DECODE_CACHE = InitCache
    /\ mapping = InitMapping
    /\ job \in AppJobs
    /\ worker = [w \in Workers |-> IdleWorker]
    /\ results = [t \in Tex |-> NoResult]
    /\ calls = {}
    /\ codecLog = {}
    /\ gui = GuiIdle

NextApp ==
    \/ replace_texture
    \/ replace_texture_sequential
    \/ \E t \in Tex : pool_take(t)
    \/ \E t \in Tex : pool_run(t)
    \/ \E t \in Tex : pool_collect(t)
    \/ replace_texture_summary

SpecApp == InitApp /\ [][NextApp]_vars

\* every call do_one makes comes back at the callee's first lines
AppCallsEndAtEntry == \A t \in job.selection : do_one(t).kind # "continue"

\* C7: no call that do_one makes into replace_pcvr_texture or
\* replace_quest_texture raises: every call yields a (success, message)
\* result.
C7_NoExceptionCrossesBoundary ==
    /\ gui.phase # "raised"
    /\ \A t \in Tex : gui.outcome[t].kind # "raise"

\* C8: for every selected entry the engine is called with that texture's
\* file as the original, the chosen image as the replacement, the
\* rebuild-output tree as descriptor source and the platform's staging
\* folder as target; when the click is done, exactly one result has been
\* collected per selected texture.
C8_EverySelectedTextureReplaced ==
    /\ \A c \in calls :
          /\ c.args.original_texture_path = TexPath(c.tex)
          /\ c.args.replacement_texture_path = PyStr(job.replacement)
          /\ c.args.output_folder = OUT
          /\ c.args.input_folder = IF job.is_quest THEN QUEST_IN ELSE PCVR_IN
    /\ gui.phase = "done" =>
          \A t \in job.selection :
              Cardinality({i \in 1..Len(gui.results) : gui.results[i].name = t}) = 1

-----------------------------------------------------------------------------
(* ASTCTools.wrap_raw_astc: the 16 byte header the decoder expects in     *)
(* front of a headerless payload.  struct.pack raises, and the function    *)
(* returns False without writing, when a block dimension does not fit one  *)
(* byte or an image dimension does not fit an unsigned 32 bit integer.     *)

ASTC_MAGIC_NUMBER == 1554098963            \* 0x5CA1AB13

\* wrap_raw_astc with the image dimensions packed in two bytes each
wrap_raw_astc_short_dims(fsys, raw_path, wrapped_path, width, height, block_width, block_height) ==
    IF ~exists(fsys, raw_path) THEN [ok |-> FALSE, fs |-> fsys]
    ELSE [ok |-> TRUE,
          fs |-> write(fsys, wrapped_path,
                       pack_I(ASTC_MAGIC_NUMBER) \o <<block_width, block_height, 1>>
                           \o SubSeq(pack_I(width), 1, 2) \o SubSeq(pack_I(height), 1, 2)
                           \o SubSeq(pack_I(1), 1, 2) \o fsys[raw_path])]

wrap_raw_astc(fsys, raw_path, wrapped_path, width, height, block_width, block_height) ==
    IF /\ LET packable_B(n) == n >= 0 /\ n <= 255
          IN packable_B(block_width) /\ packable_B(block_height)
       /\ packable_I(width) /\ packable_I(height)
       /\ exists(fsys, raw_path)
    THEN LET dim3(x) == SubSeq(pack_I(x), 1, 3)
             magic == pack_I(ASTC_MAGIC_NUMBER)
             block_dims == <<block_width, block_height, 1>>
             image_dims == dim3(width) \o dim3(height) \o dim3(1)
             header == magic \o block_dims \o image_dims
         IN [ok |-> TRUE, fs |-> write(fsys, wrapped_path, header \o fsys[raw_path])]
    ELSE [ok |-> FALSE, fs |-> fsys]

-----------------------------------------------------------------------------
(* ASTCTools.find_texture_info: the exact name, then the name without the *)
(* first suffix of the list that it ends with and whose base is mapped.    *)
(* A name is a sequence of parts, a suffix being a part of its own.        *)

suffixes == <<"_d", "_n", "_s", "_e", "_a", "_r", "_m", "_h">>

NoTextureInfo == [found |-> FALSE, info |-> [width |-> 0, height |-> 0]]
TextureInfo(info) == [found |-> TRUE, info |-> info]

endswith(texture_name, suffix) == Len(texture_name) > 0 /\ texture_name[Len(texture_name)] = suffix
strip_suffix(texture_name) == SubSeq(texture_name, 1, Len(texture_name) - 1)

RECURSIVE find_by_suffix(_, _, _)
find_by_suffix(texture_name, map, i) ==
    IF i > Len(suffixes) THEN NoTextureInfo
    ELSE IF endswith(texture_name, suffixes[i]) /\ strip_suffix(texture_name) \in DOMAIN map
    THEN TextureInfo(map[strip_suffix(texture_name)])
    ELSE find_by_suffix(texture_name, map, i + 1)

\* find_texture_info trying the stripped name before the exact one
find_texture_info_base_first(texture_name, map) ==
    IF find_by_suffix(texture_name, map, 1).found THEN find_by_suffix(texture_name, map, 1)
    ELSE IF texture_name \in DOMAIN map THEN TextureInfo(map[texture_name])
    ELSE NoTextureInfo

find_texture_info(texture_name, map) ==
    IF texture_name \in DOMAIN map THEN TextureInfo(map[texture_name])
    ELSE find_by_suffix(texture_name, map, 1)

-----------------------------------------------------------------------------
(* DECODE_CACHE and its file.  json.dump writes the dictionary as a text  *)
(* of tokens, one object per key with its five members; json.load parses   *)
(* such a text and raises on anything else, a later duplicate key          *)
(* replacing an earlier one.                                               *)

Record(width, height, block_w, block_h, original_size) ==
    [width |-> width, height |-> height, block_w |-> block_w, block_h |-> block_h,
     original_size |-> original_size]

EmptyDict == <<>>

\* d[k] = v
setitem(dict, k, v) == [x \in (DOMAIN dict) \cup {k} |-> IF x = k THEN v ELSE dict[x]]

\* the text: one number per token.  A string is its parts between quotes.
QUOTE == 34
LBRACE == 123
RBRACE == 125
WORD_BASE == 400
NUM_BASE == 1000
RECORD_TOKENS == 22

Words == <<"width", "height", "block_w", "block_h", "original_size",
           "q1", "q2", "q3", "q4", "q5", "_d", "_n", "_BF_">>
Members == <<"width", "height", "block_w", "block_h", "original_size">>

dump_str(parts) ==
    LET word_code(part) == WORD_BASE + (CHOOSE i \in 1..Len(Words) : Words[i] = part)
    IN <<QUOTE>> \o [i \in 1..Len(parts) |-> word_code(parts[i])] \o <<QUOTE>>
dump_member(name, value) == dump_str(<<name>>) \o <<NUM_BASE + value>>

\* dump_record leaving out the last member
dump_record_without_size(rec) ==
    <<LBRACE>> \o dump_member("width", rec.width) \o dump_member("height", rec.height)
        \o dump_member("block_w", rec.block_w) \o dump_member("block_h", rec.block_h)
        \o <<RBRACE>>

dump_record(rec) ==
    <<LBRACE>> \o dump_member("width", rec.width) \o dump_member("height", rec.height)
        \o dump_member("block_w", rec.block_w) \o dump_member("block_h", rec.block_h)
        \o dump_member("original_size", rec.original_size) \o <<RBRACE>>

RECURSIVE dump_items(_, _)
dump_items(dict, keys) ==
    IF keys = {} THEN <<>>
    ELSE LET k == CHOOSE x \in keys : TRUE
         IN dump_str(k) \o dump_record(dict[k]) \o dump_items(dict, keys \ {k})

json_dump(dict) == <<LBRACE>> \o dump_items(dict, DOMAIN dict) \o <<RBRACE>>

JsonError == [ok |-> FALSE, value |-> EmptyDict]
StrError == [ok |-> FALSE, value |-> <<>>, next |-> 0]

RECURSIVE scan_str(_, _, _)
scan_str(text, j, acc) ==
    IF j > Len(text) THEN StrError
    ELSE IF text[j] = QUOTE THEN [ok |-> TRUE, value |-> acc, next |-> j + 1]
    ELSE IF text[j] > WORD_BASE /\ text[j] <= WORD_BASE + Len(Words)
    THEN scan_str(text, j + 1, Append(acc, Words[text[j] - WORD_BASE]))
    ELSE StrError

parse_str(text, i) == IF i <= Len(text) /\ text[i] = QUOTE THEN scan_str(text, i + 1, <<>>) ELSE StrError

\* the record that starts at token i, member m being four tokens
parse_record(text, i) ==
    LET member_ok(m) ==
            /\ SubSeq(text, i + 4 * m - 3, i + 4 * m - 1) = dump_str(<<Members[m]>>)
            /\ text[i + 4 * m] >= NUM_BASE
        member_value(m) == text[i + 4 * m] - NUM_BASE
    IN IF /\ i + RECORD_TOKENS - 1 <= Len(text)
          /\ text[i] = LBRACE
          /\ \A m \in 1..Len(Members) : member_ok(m)
          /\ text[i + RECORD_TOKENS - 1] = RBRACE
       THEN [ok |-> TRUE,
             value |-> Record(member_value(1), member_value(2), member_value(3),
                              member_value(4), member_value(5))]
       ELSE [ok |-> FALSE, value |-> Record(0, 0, 0, 0, 0)]

RECURSIVE parse_items(_, _, _)
parse_items(text, i, acc) ==
    IF i = Len(text) THEN [ok |-> TRUE, value |-> acc]
    ELSE LET k == parse_str(text, i)
         IN IF k.ok /\ k.next + RECORD_TOKENS <= Len(text) /\ parse_record(text, k.next).ok
            THEN parse_items(text, k.next + RECORD_TOKENS,
                             setitem(acc, k.value, parse_record(text, k.next).value))
            ELSE JsonError

json_load(text) ==
    IF Len(text) >= 2 /\ text[1] = LBRACE /\ text[Len(text)] = RBRACE
    THEN parse_items(text, 2, EmptyDict)
    ELSE JsonError

\* ASTCTools.save_decode_cache; every exception is swallowed
save_decode_cache(fsys, cache_file, cache) == write(fsys, cache_file, json_dump(cache))

\* ASTCTools.load_decode_cache: the new value of DECODE_CACHE
load_decode_cache(fsys, cache_file, cache) ==
    IF exists(fsys, cache_file)
    THEN IF json_load(fsys[cache_file]).ok THEN json_load(fsys[cache_file]).value ELSE cache
    ELSE cache

-----------------------------------------------------------------------------
(* The byte level functions applied to inputs of their own: one call per  *)
(* run, the inputs drawn when the run starts.                              *)

INPUT_FILE == join(USER, Comp(<<"input">>, ""))
WRAPPED_FILE == join(TEMP, Comp(<<"tmp">>, ".astc"))

CACHE_FILE == <<Dir("settings"), Comp(<<"decode_cache">>, ".json")>>

\* contents of the cache file from which json.load raises
CorruptTexts ==
    {<<>>,
     SubSeq(json_dump(InitCache), 1, 7),
     SubSeq(json_dump(InitCache), 1, Len(json_dump(InitCache)) - 1)}

\* the calls of the run: one function and its arguments
ToolJobs ==
    LET
        ToolJob(fn, data, present, n, width, height, block_w, block_h, width2, height2) ==
            [fn |-> fn, data |-> data, present |-> present, n |-> n, width |-> width, height |-> height,
             block_w |-> block_w, block_h |-> block_h, width2 |-> width2, height2 |-> height2,
             name |-> <<>>, map |-> EmptyDict, cache |-> EmptyDict,
             rec |-> Record(0, 0, 0, 0, 0), rec2 |-> Record(0, 0, 0, 0, 0), restart |-> FALSE]

        RawPayloads == {<<>>, Body(1), Body(16), AstcFile(4, 4, 16)}

        WrapJobs ==
            {ToolJob("wrap_raw_astc", d, TRUE, 0, w, h, bw, bh, 0, 0) :
                d \in RawPayloads, w \in {1, 256, 65535, 65536}, h \in {1, 65535},
                bw \in {1, 8, 255, 256}, bh \in {1, 255}}

        PadJobs ==
            {ToolJob("pad_to_size", d, TRUE, n, 0, 0, 0, 0, 0, 0) :
                d \in {<<>>, Body(3), Body(5)}, n \in {-1, 0, 3, 4, 8}}

        SizeJobs ==
            UNION {{ToolJob("calculate_astc_size", <<>>, TRUE, 0, w, h, bw, bh, w + dw, h + dh) :
                       dw \in {0, 1, 3}, dh \in {0, 1}} :
                   w \in {1, 4, 5, 8, 9, 16}, h \in {1, 4, 5}, bw \in {1, 4, 8}, bh \in {4, 5}}

        HeaderBuffers ==
            {MkDDS(8, 4, 3, 16), Slice(MkDDS(8, 4, 3, 16), 0, 128), Slice(MkDDS(8, 4, 3, 16), 0, 127),
             MkDDS(300, 70000, 0, 0), Body(144), DDS_MAGIC, <<>>, MkPNG(8, 4)}

        HeaderJobs ==
            {ToolJob("get_dds_info", d, TRUE, 0, 0, 0, 0, 0, 0, 0) : d \in HeaderBuffers}
            \cup {ToolJob("get_dds_info", <<>>, FALSE, 0, 0, 0, 0, 0, 0, 0)}

        \* names and mappings for find_texture_info
        LookupNames ==
            {<<"a">>, <<"a", "_d">>, <<"a", "_n">>, <<"a", "_d", "_n">>, <<"b", "_d", "_n">>,
             <<"b", "_h">>, <<"b", "_x">>, <<"c">>, <<"_d">>}

        LookupMappings ==
            {EmptyDict,
             (<<"a">> :> [width |-> 8, height |-> 8]),
             (<<"a">> :> [width |-> 8, height |-> 8]) @@ (<<"a", "_d">> :> [width |-> 4, height |-> 4]),
             (<<"a", "_d">> :> [width |-> 4, height |-> 4]) @@ (<<"b">> :> [width |-> 2, height |-> 2]),
             (<<>> :> [width |-> 1, height |-> 1])}

        LookupJobs ==
            {[ToolJob("find_texture_info", <<>>, TRUE, 0, 0, 0, 0, 0, 0, 0) EXCEPT !.name = nm, !.map = m] :
                nm \in LookupNames, m \in LookupMappings}

        StoredCaches ==
            {EmptyDict, InitCache,
             (<<"q2">> :> Record(8, 8, 8, 8, 32)) @@ (<<"q5", "_d">> :> Record(8, 4, 6, 6, 32))}

        CacheTexts == CorruptTexts \cup {json_dump(c) : c \in StoredCaches}

        LoadJobs ==
            {[ToolJob("load_decode_cache", d, pr, 0, 0, 0, 0, 0, 0, 0) EXCEPT !.cache = c] :
                d \in CacheTexts, pr \in BOOLEAN, c \in StoredCaches}

        \* put (one or two records for the same key), persist, load, with or
        \* without a restart of the process between persist and load
        RoundTripJobs ==
            {[ToolJob("decode_cache_round_trip", d, pr, n, 0, 0, 0, 0, 0, 0)
                 EXCEPT !.cache = c, !.name = nm, !.rec = Record(8, 4, 4, 4, 32),
                        !.rec2 = Record(4, 8, 10, 5, 0), !.restart = rs] :
                d \in {<<>>, json_dump(InitCache)}, pr \in BOOLEAN, n \in {1, 2},
                c \in {EmptyDict, InitCache}, nm \in {<<"q1">>, <<"q5", "_d">>}, rs \in BOOLEAN}
    IN WrapJobs \cup PadJobs \cup SizeJobs \cup HeaderJobs \cup LookupJobs \cup LoadJobs
       \cup RoundTripJobs

ToolFrame == UNCHANGED <<mapping, job, worker, calls, codecLog, gui>>

\* decode_with_config, line 1036: the payload is wrapped into the temporary file
Apply_wrap_raw_astc ==
    /\ job.fn = "wrap_raw_astc"
    /\ results.stage = "start"
    /\ LET r == wrap_raw_astc(fs, INPUT_FILE, WRAPPED_FILE, job.width, job.height,
                              job.block_w, job.block_h)
       IN /\ fs' = r.fs
          /\ results' = [results EXCEPT !.stage = IF r.ok THEN "wrapped" ELSE "done", !.ok = r.ok]
    /\ UNCHANGED DECODE_CACHE
    /\ ToolFrame

\* encode_texture, lines 1136-1142: the header is stripped from what the file holds
Apply_header_strip ==
    /\ job.fn = "wrap_raw_astc"
    /\ results.stage = "wrapped"
    /\ results' = [results EXCEPT !.stage = "done",
                                  !.value = encode_texture_payload(fs[WRAPPED_FILE], PyNone)]
    /\ UNCHANGED fs
    /\ UNCHANGED DECODE_CACHE
    /\ ToolFrame

Apply_pad_to_size ==
    /\ job.fn = "pad_to_size"
    /\ results.stage = "start"
    /\ results' = [results EXCEPT !.stage = "done", !.ok = TRUE,
                                  !.value = pad_to_size(job.data, job.n),
                                  !.value2 = pad_to_size(pad_to_size(job.data, job.n), job.n)]
    /\ UNCHANGED fs
    /\ UNCHANGED DECODE_CACHE
    /\ ToolFrame

Apply_calculate_astc_size ==
    /\ job.fn = "calculate_astc_size"
    /\ results.stage = "start"
    /\ results' = [results EXCEPT
                      !.stage = "done", !.ok = TRUE,
                      !.value = calculate_astc_size(job.width, job.height, job.block_w, job.block_h),
                      !.value2 = calculate_astc_size(job.width2, job.height2, job.block_w, job.block_h)]
    /\ UNCHANGED fs
    /\ UNCHANGED DECODE_CACHE
    /\ ToolFrame

Apply_get_dds_info ==
    /\ job.fn = "get_dds_info"
    /\ results.stage = "start"
    /\ results' = [results EXCEPT !.stage = "done", !.info = get_dds_info(fs, INPUT_FILE),
                                  !.ok = get_dds_info(fs, INPUT_FILE).ok]
    /\ UNCHANGED fs
    /\ UNCHANGED DECODE_CACHE
    /\ ToolFrame

Apply_find_texture_info ==
    /\ job.fn = "find_texture_info"
    /\ results.stage = "start"
    /\ results' = [results EXCEPT !.stage = "done",
                                  !.ok = find_texture_info(job.name, mapping).found,
                                  !.info = find_texture_info(job.name, mapping).info]
    /\ UNCHANGED <<fs, DECODE_CACHE>>
    /\ ToolFrame

\* decode_with_config, lines 1047-1051: DECODE_CACHE[cache_key] = {...}
Apply_store ==
    /\ job.fn = "decode_cache_round_trip"
    /\ \/ /\ results.stage = "start"
          /\ DECODE_CACHE' = setitem(DECODE_CACHE, job.name, job.rec)
          /\ results' = [results EXCEPT !.stage = "put"]
       \/ /\ results.stage = "put" /\ job.n = 2
          /\ DECODE_CACHE' = setitem(DECODE_CACHE, job.name, job.rec2)
          /\ results' = [results EXCEPT !.stage = "put2"]
    /\ UNCHANGED fs
    /\ ToolFrame

Apply_save_decode_cache ==
    /\ job.fn = "decode_cache_round_trip"
    /\ results.stage = (IF job.n = 2 THEN "put2" ELSE "put")
    /\ fs' = save_decode_cache(fs, CACHE_FILE, DECODE_CACHE)
    /\ results' = [results EXCEPT !.stage = "saved"]
    /\ UNCHANGED DECODE_CACHE
    /\ ToolFrame

\* line 84, executed when the module is imported by a new process
Apply_restart ==
    /\ job.fn = "decode_cache_round_trip"
    /\ results.stage = "saved" /\ job.restart
    /\ DECODE_CACHE' = EmptyDict
    /\ results' = [results EXCEPT !.stage = "restarted"]
    /\ UNCHANGED fs
    /\ ToolFrame

Apply_load_decode_cache ==
    /\ \/ job.fn = "load_decode_cache" /\ results.stage = "start"
       \/ job.fn = "decode_cache_round_trip" /\ results.stage = "saved" /\ ~job.restart
       \/ job.fn = "decode_cache_round_trip" /\ results.stage = "restarted"
    /\ DECODE_CACHE' = load_decode_cache(fs, CACHE_FILE, DECODE_CACHE)
    /\ results' = [results EXCEPT !.stage = "done", !.ok = TRUE]
    /\ UNCHANGED fs
    /\ ToolFrame

InitTools ==
    /\ job \in ToolJobs
    /\ fs = IF ~job.present THEN <<>>
            ELSE IF job.fn \in {"load_decode_cache", "decode_cache_round_trip"}
                 THEN (CACHE_FILE :> job.data)
            ELSE (INPUT_FILE :> job.data)
    /\ DECODE_CACHE = job.cache
    /\ mapping = job.map
    /\ worker = [w \in Workers |-> IdleWorker]
    /\ results = [stage |-> "start", ok |-> FALSE, value |-> <<>>, value2 |-> <<>>, info |-> NoInfo]
    /\ calls = {}
    /\ codecLog = {}
    /\ gui = GuiIdle

NextTools ==
    \/ Apply_wrap_raw_astc
    \/ Apply_header_strip
    \/ Apply_pad_to_size
    \/ Apply_calculate_astc_size
    \/ Apply_get_dds_info
    \/ Apply_find_texture_info
    \/ Apply_store
    \/ Apply_save_decode_cache
    \/ Apply_restart
    \/ Apply_load_decode_cache

SpecTools == InitTools /\ [][NextTools]_vars

\* C11: for a non-empty payload, a width and a height in 1..65535 and block
\* dimensions in 1..255, wrap_raw_astc succeeds and writes the payload behind
\* exactly 16 bytes, and stripping the header the way encode_texture does
\* gives back exactly the payload.
C11_WrapStripRoundTrip ==
    (/\ job.fn = "wrap_raw_astc"
     /\ Len(job.data) > 0
     /\ job.width \in 1..65535 /\ job.height \in 1..65535
     /\ job.block_w \in 1..255 /\ job.block_h \in 1..255
     /\ results.stage # "start")
    => /\ results.ok
       /\ Len(fs[WRAPPED_FILE]) = Len(job.data) + 16
       /\ SubSeq(fs[WRAPPED_FILE], 17, Len(fs[WRAPPED_FILE])) = job.data
       /\ results.stage = "done" => results.value = job.data

C11_Witness ==
    /\ job.fn = "wrap_raw_astc"
    /\ job.data = AstcFile(4, 4, 16)
    /\ job.width = 65535 /\ job.height = 65535
    /\ job.block_w = 255 /\ job.block_h = 255
    /\ results.stage = "done"
    /\ results.value = job.data

IsPrefix(a, b) == Len(a) <= Len(b) /\ \A i \in 1..Len(a) : a[i] = b[i]

\* C12: for n >= 0, pad_to_size(data, n) is data followed by zero bytes up to
\* length n when data is shorter than n, the first n bytes of data when it is
\* longer, and data itself when it has n bytes; applying it a second time
\* changes nothing.
C12_PadToSizeCases ==
    (job.fn = "pad_to_size" /\ results.stage = "done" /\ job.n >= 0)
    => /\ Len(job.data) < job.n =>
             /\ Len(results.value) = job.n
             /\ IsPrefix(job.data, results.value)
             /\ \A i \in (Len(job.data) + 1)..job.n : results.value[i] = 0
       /\ Len(job.data) > job.n =>
             /\ Len(results.value) = job.n
             /\ IsPrefix(results.value, job.data)
       /\ Len(job.data) = job.n => results.value = job.data
       /\ results.value2 = results.value

C12_Witness ==
    /\ job.fn = "pad_to_size"
    /\ job.data = Body(5) /\ job.n = 3
    /\ results.stage = "done"
    /\ results.value = <<2, 3, 4>>

\* the least k with k * b >= a
CeilDiv(a, b) == CHOOSE k \in 0..a : k * b >= a /\ (k - 1) * b < a

\* C13: for positive arguments calculate_astc_size is
\* ceil(w/bw) * ceil(h/bh) * 16, it gives 16 for (4,4,4,4) and 32 for
\* (5,4,4,4), and at a fixed block size it does not decrease when the width
\* or the height grows.
C13_ExpectedSizeExactAndMonotone ==
    (job.fn = "calculate_astc_size" /\ results.stage = "done")
    => /\ results.value = CeilDiv(job.width, job.block_w) * CeilDiv(job.height, job.block_h) * 16
       /\ (job.width = 4 /\ job.height = 4 /\ job.block_w = 4 /\ job.block_h = 4)
             => results.value = 16
       /\ (job.width = 5 /\ job.height = 4 /\ job.block_w = 4 /\ job.block_h = 4)
             => results.value = 32
       /\ (job.width <= job.width2 /\ job.height <= job.height2)
             => results.value <= results.value2

C13_Witness ==
    /\ job.fn = "calculate_astc_size"
    /\ job.width = 5 /\ job.height = 4 /\ job.block_w = 4 /\ job.block_h = 4
    /\ job.width2 = 8 /\ job.height2 = 5
    /\ results.stage = "done"
    /\ results.value = 32 /\ results.value2 = 64

\* C14: get_dds_info returns None for a buffer shorter than 128 bytes and
\* for a buffer that does not start with 'DDS '; for every other buffer the
\* height, the width and the mipmap count it returns are the little-endian
\* 32 bit values at offsets 8, 12 and 24 of the header that follows the
\* signature.
C14_ParseHeader ==
    (job.fn = "get_dds_info" /\ job.present /\ results.stage = "done")
    => IF Len(job.data) < 128 \/ SubSeq(job.data, 1, 4) # <<68, 68, 83, 32>>
       THEN ~results.info.ok
       ELSE /\ results.info.ok
            /\ pack_I(results.info.height) = SubSeq(job.data, 4 + 8 + 1, 4 + 8 + 4)
            /\ pack_I(results.info.width) = SubSeq(job.data, 4 + 12 + 1, 4 + 12 + 4)
            /\ pack_I(results.info.mipmaps) = SubSeq(job.data, 4 + 24 + 1, 4 + 24 + 4)

C14_Witness ==
    /\ job.fn = "get_dds_info"
    /\ job.data = MkDDS(300, 70000, 0, 0)
    /\ results.stage = "done"
    /\ results.info.ok
    /\ results.info.width = 300 /\ results.info.height = 70000

\* C15: find_texture_info returns the entry under the exact name when there
\* is one; otherwise the entry under the name without its last part when
\* that part is one of the eight suffixes and the base is mapped; otherwise
\* None.  Only one suffix is ever stripped.
C15_ExactThenOneSuffix ==
    (job.fn = "find_texture_info" /\ results.stage = "done")
    => LET name == job.name
           n == Len(name)
           base == SubSeq(name, 1, n - 1)
           has_suffix == n > 0 /\ name[n] \in {"_d", "_n", "_s", "_e", "_a", "_r", "_m", "_h"}
       IN IF name \in DOMAIN mapping
          THEN results.ok /\ results.info = mapping[name]
          ELSE IF has_suffix /\ base \in DOMAIN mapping
          THEN results.ok /\ results.info = mapping[base]
          ELSE ~results.ok

C15_Witness ==
    /\ job.fn = "find_texture_info"
    /\ job.name = <<"a", "_d">>
    /\ <<"a">> \in DOMAIN mapping /\ <<"a", "_d">> \in DOMAIN mapping
    /\ results.stage = "done"
    /\ results.info = [width |-> 4, height |-> 4]

\* C17: after a record is stored under a key, DECODE_CACHE holds it under
\* that key; after a second store under the same key it holds the second
\* record; and after save_decode_cache followed by load_decode_cache, in the
\* same process or in a new one, DECODE_CACHE holds under the key the record
\* stored last.
C17_CacheRoundTrip ==
    (job.fn = "decode_cache_round_trip")
    => /\ results.stage = "put" =>
             job.name \in DOMAIN DECODE_CACHE /\ DECODE_CACHE[job.name] = job.rec
       /\ results.stage = "put2" =>
             job.name \in DOMAIN DECODE_CACHE /\ DECODE_CACHE[job.name] = job.rec2
       /\ results.stage = "done" =>
             /\ job.name \in DOMAIN DECODE_CACHE
             /\ DECODE_CACHE[job.name] = (IF job.n = 2 THEN job.rec2 ELSE job.rec)

C17_Witness ==
    /\ job.fn = "decode_cache_round_trip"
    /\ job.restart /\ job.n = 2 /\ job.name = <<"q5", "_d">>
    /\ job.cache = InitCache
    /\ results.stage = "done"
    /\ DECODE_CACHE = (<<"q1">> :> InitCache[<<"q1">>]) @@ (<<"q5", "_d">> :> Record(4, 8, 10, 5, 0))

\* C18: after load_decode_cache has run on a missing file or on a file
\* json.load cannot parse, DECODE_CACHE is an empty dictionary, whatever it
\* held before.
C18_FailedLoadGivesEmptyCache ==
    (/\ job.fn = "load_decode_cache"
     /\ results.stage = "done"
     /\ (~job.present \/ job.data \in CorruptTexts))
    => DECODE_CACHE = EmptyDict

-----------------------------------------------------------------------------
(* TextureLoader.load_quest_texture with ASTCTools.decode_with_mapping,   *)
(* brute_force_decode and decode_with_config, run by several workers, and  *)
(* ASTCTools.load_decode_cache run next to them.  The decoder is a stub    *)
(* that validates a fixed set of block sizes.                              *)

MaxReload == 1       \* calls of load_decode_cache in a run that has a cache file

DECODE_MIN_SIZE == 1000                    \* file_size > 1000

get_common_block_sizes ==
    <<<<4, 4>>, <<8, 8>>, <<6, 6>>, <<5, 5>>, <<10, 10>>, <<12, 12>>, <<5, 4>>, <<6, 5>>,
      <<8, 5>>, <<8, 6>>, <<10, 5>>, <<10, 6>>, <<10, 8>>>>

configurations ==
    <<<<2048, 1024, 8, 8, "2Kx1K_8x8">>, <<2048, 1024, 6, 6, "2Kx1K_6x6">>,
      <<2048, 1024, 4, 4, "2Kx1K_4x4">>, <<1024, 512, 8, 8, "1Kx512_8x8">>,
      <<1024, 512, 6, 6, "1Kx512_6x6">>, <<1024, 512, 4, 4, "1Kx512_4x4">>,
      <<2048, 2048, 8, 8, "2K_square_8x8">>, <<1024, 1024, 8, 8, "1K_square_8x8">>>>

BRUTE_FORCE_TOLERANCE == 100               \* abs(expected_size - file_size) > 100

\* Path(texture_path).stem with the channel suffix taken off as well
stem_without_suffix(texture_path) ==
    IF endswith(basename(texture_path).stem, "_d")
    THEN strip_suffix(basename(texture_path).stem) ELSE basename(texture_path).stem

\* Path(texture_path).stem
stem(texture_path) == basename(texture_path).stem

Config(width, height, block_w, block_h, out) ==
    [width |-> width, height |-> height, block_w |-> block_w, block_h |-> block_h, out |-> out]

\* decode_with_mapping: one attempt per common block size
mapping_candidates(texture_path, texture_info) ==
    [i \in 1..Len(get_common_block_sizes) |->
        Config(texture_info.width, texture_info.height,
               get_common_block_sizes[i][1], get_common_block_sizes[i][2],
               Comp(stem(texture_path), ".png"))]

\* brute_force_candidates without the size test of line 1099
RECURSIVE brute_force_candidates_any_size(_, _, _)
brute_force_candidates_any_size(texture_path, file_size, i) ==
    IF i > Len(configurations) THEN <<>>
    ELSE LET c == configurations[i]
         IN <<Config(c[1], c[2], c[3], c[4],
                     Comp(stem(texture_path) \o <<"_BF_", c[5]>>, ".png"))>>
                \o brute_force_candidates_any_size(texture_path, file_size, i + 1)

\* brute_force_decode: the configurations whose expected size is near the file's
RECURSIVE brute_force_candidates(_, _, _)
brute_force_candidates(texture_path, file_size, i) ==
    IF i > Len(configurations) THEN <<>>
    ELSE LET c == configurations[i]
             expected_size == calculate_astc_size(c[1], c[2], c[3], c[4])
             rest == brute_force_candidates(texture_path, file_size, i + 1)
             abs(x) == IF x < 0 THEN -x ELSE x
         IN IF abs(expected_size - file_size) > BRUTE_FORCE_TOLERANCE THEN rest
            ELSE <<Config(c[1], c[2], c[3], c[4],
                          Comp(stem(texture_path) \o <<"_BF_", c[5]>>, ".png"))>> \o rest

\* The decoder process under a stub: its exit code, what it leaves in the
\* output file ("none", "small": 1000 bytes, "large": 1001 bytes) and
\* whether it stays running until it is killed.  "ok_exact" is a decoder
\* that accepts a payload of exactly the size its header announces, "hangs"
\* one that never exits by itself.
DecodeOutcome(stub, width, height, block_w, block_h, payload_size) ==
    LET at(bw, bh) == block_w = bw /\ block_h = bh
        Process(returncode, output, hangs) ==
            [returncode |-> returncode, output |-> output, hangs |-> hangs]
    IN CASE stub = "ok_all" -> Process(0, "large", FALSE)
         [] stub = "hangs" -> Process(0, "none", TRUE)
         [] stub = "ok_8x8" /\ at(8, 8) -> Process(0, "large", FALSE)
         [] stub = "ok_8x8" /\ at(4, 4) -> Process(0, "small", FALSE)
         [] stub = "ok_6x6" /\ at(6, 6) -> Process(0, "large", FALSE)
         [] stub = "ok_6x6" /\ at(4, 4) -> Process(0, "large", TRUE)
         [] stub = "ok_6x6" /\ at(8, 8) -> Process(0, "none", FALSE)
         [] stub = "ok_4x4" /\ at(4, 4) -> Process(0, "large", FALSE)
         [] stub = "ok_4x4" /\ at(8, 8) -> Process(1, "large", FALSE)
         [] stub = "ok_exact" /\ calculate_astc_size(width, height, block_w, block_h) = payload_size
                -> Process(0, "large", FALSE)
         [] OTHER -> Process(1, "none", FALSE)

\* the timeout each call site passes to run_hidden_command, by the tool it runs:
\* lines 1041, 1132 and 1474; load_with_texconv passes none (lines 1428, 1433)
call_timeout(tool) ==
    CASE tool = "astcenc -dl" -> PyInt(10)
      [] tool = "astcenc" -> PyInt(30)
      [] tool = "texconv" -> PyInt(60)
      [] tool \in {"texconv -ft png", "texconv decode"} -> PyNone

\* run_hidden_command: subprocess.run kills the process when the timeout
\* expires and the handler returns CompletedProcess(cmd, -1); without a
\* timeout the call returns when the process exits
run_hidden_command(process, timeout) ==
    IF ~process.hangs THEN [returns |-> TRUE, returncode |-> process.returncode]
    ELSE IF timeout # PyNone THEN [returns |-> TRUE, returncode |-> -1]
    ELSE [returns |-> FALSE, returncode |-> 0]

temp_dir(t) == join(TEMP, Comp(<<"astc_decode_", t>>, ""))
temp_astc(t) == join(TEMP, Comp(<<"tmp", t>>, ".astc"))
cache_path(texture_path) == <<Dir("texture_cache"), Comp(stem(texture_path), ".png")>>

IsUnder(p, dir) == Len(p) >= Len(dir) /\ SubSeq(p, 1, Len(dir)) = dir
rmtree(fsys, dir) == [q \in {x \in DOMAIN fsys : ~IsUnder(x, dir)} |-> fsys[q]]

\* what the decoder writes: a PNG of n bytes
DecodedPng(n) == MkPNG(8, 8) \o <<Len(MkPNG(8, 8)) - n>>

\* the invocation of line 1039 as the log has it
DecodeCall(t, c) ==
    [tool |-> "astcenc -dl", tex |-> t, width |-> c.width, height |-> c.height,
     block_w |-> c.block_w, block_h |-> c.block_h, target_size |-> PyNone]

\* decode_with_config keeping the output file of a candidate it rejects
decode_with_config_keep_rejected(st, codec, t, c) ==
    LET raw_file == TexPath(t)
        output_file == join(temp_dir(t), c.out)
        wrapped == wrap_raw_astc(write(st.fs, temp_astc(t), <<>>), raw_file, temp_astc(t),
                                 c.width, c.height, c.block_w, c.block_h)
        process == DecodeOutcome(codec, c.width, c.height, c.block_w, c.block_h,
                                 getsize(st.fs, raw_file))
        result == run_hidden_command(process, call_timeout("astcenc -dl"))
        ran == IF process.output = "none" THEN wrapped.fs
               ELSE write(wrapped.fs, output_file,
                          DecodedPng(IF process.output = "small" THEN DECODE_MIN_SIZE
                                     ELSE DECODE_MIN_SIZE + 1))
        valid == /\ result.returncode = 0
                 /\ exists(ran, output_file)
                 /\ getsize(ran, output_file) > DECODE_MIN_SIZE
    IN IF ~wrapped.ok THEN [st EXCEPT !.ok = FALSE]
       ELSE [ok |-> valid,
             fs |-> remove(ran, temp_astc(t)),
             cache |-> IF valid
                       THEN setitem(st.cache, stem(raw_file),
                                    Record(c.width, c.height, c.block_w, c.block_h,
                                           getsize(st.fs, raw_file)))
                       ELSE st.cache,
             calls |-> st.calls,
             log |-> st.log \cup {DecodeCall(t, c)},
             decodes |-> st.decodes \cup
                     {[tex |-> t, width |-> c.width, height |-> c.height,
                       block_w |-> c.block_w, block_h |-> c.block_h,
                       out |-> c.out, returncode |-> result.returncode,
                       output |-> process.output, accepted |-> valid]}]

\* decode_with_config storing the record before it looks at the decoder's result
decode_with_config_store_first(st, codec, t, c) ==
    LET raw_file == TexPath(t)
        output_file == join(temp_dir(t), c.out)
        wrapped == wrap_raw_astc(write(st.fs, temp_astc(t), <<>>), raw_file, temp_astc(t),
                                 c.width, c.height, c.block_w, c.block_h)
        process == DecodeOutcome(codec, c.width, c.height, c.block_w, c.block_h,
                                 getsize(st.fs, raw_file))
        result == run_hidden_command(process, call_timeout("astcenc -dl"))
        ran == IF process.output = "none" THEN wrapped.fs
               ELSE write(wrapped.fs, output_file,
                          DecodedPng(IF process.output = "small" THEN DECODE_MIN_SIZE
                                     ELSE DECODE_MIN_SIZE + 1))
        valid == /\ result.returncode = 0
                 /\ exists(ran, output_file)
                 /\ getsize(ran, output_file) > DECODE_MIN_SIZE
    IN IF ~wrapped.ok THEN [st EXCEPT !.ok = FALSE]
       ELSE [ok |-> valid,
             fs |-> remove(IF valid \/ ~exists(ran, output_file) THEN ran
                           ELSE remove(ran, output_file),
                           temp_astc(t)),
             cache |-> setitem(st.cache, stem(raw_file),
                               Record(c.width, c.height, c.block_w, c.block_h,
                                      getsize(st.fs, raw_file))),
             calls |-> st.calls,
             log |-> st.log \cup {DecodeCall(t, c)},
             decodes |-> st.decodes \cup
                     {[tex |-> t, width |-> c.width, height |-> c.height,
                       block_w |-> c.block_w, block_h |-> c.block_h,
                       out |-> c.out, returncode |-> result.returncode,
                       output |-> process.output, accepted |-> valid]}]

\* ASTCTools.decode_with_config on the state st = [ok, fs, cache, log, calls,
\* decodes] for candidate c of texture t: the temporary file, the wrap, the
\* decoder, the validation of lines 1043-1045, the store of lines 1046-1051,
\* the unlink of a rejected output (lines 1054, 1058) and of the temporary
\* file (1066).  decodes records what the call got back and what it returned.
decode_with_config(st, codec, t, c) ==
    LET raw_file == TexPath(t)
        output_file == join(temp_dir(t), c.out)
        cache_key == stem(raw_file)
        wrapped == wrap_raw_astc(write(st.fs, temp_astc(t), <<>>), raw_file, temp_astc(t),
                                 c.width, c.height, c.block_w, c.block_h)
        process == DecodeOutcome(codec, c.width, c.height, c.block_w, c.block_h,
                                 getsize(st.fs, raw_file))
        result == run_hidden_command(process, call_timeout("astcenc -dl"))
        ran == IF process.output = "none" THEN wrapped.fs
               ELSE write(wrapped.fs, output_file,
                          DecodedPng(IF process.output = "small" THEN DECODE_MIN_SIZE
                                     ELSE DECODE_MIN_SIZE + 1))
        valid == /\ result.returncode = 0
                 /\ exists(ran, output_file)
                 /\ getsize(ran, output_file) > DECODE_MIN_SIZE
    IN IF ~wrapped.ok THEN [st EXCEPT !.ok = FALSE]
       ELSE [ok |-> valid,
             fs |-> remove(IF valid \/ ~exists(ran, output_file) THEN ran
                           ELSE remove(ran, output_file),
                           temp_astc(t)),
             cache |-> IF valid /\ cache_key # <<>>
                       THEN setitem(st.cache, cache_key,
                                    Record(c.width, c.height, c.block_w, c.block_h,
                                           getsize(st.fs, raw_file)))
                       ELSE st.cache,
             calls |-> st.calls,
             log |-> st.log \cup {DecodeCall(t, c)},
             decodes |-> st.decodes \cup
                     {[tex |-> t, width |-> c.width, height |-> c.height,
                       block_w |-> c.block_w, block_h |-> c.block_h,
                       out |-> c.out, returncode |-> result.returncode,
                       output |-> process.output, accepted |-> valid]}]

\* the element of a set of one: {e(x) : x \in {v}} is e of the value of v
The(S) == CHOOSE x \in S : TRUE

\* decode_candidates giving up at the first candidate that fails
decode_candidates_first_only(st, codec, t, cands, i) ==
    IF i > Len(cands) THEN [st EXCEPT !.ok = FALSE]
    ELSE decode_with_config(st, codec, t, cands[i])

\* the loops of lines 1082-1086 and 1097-1104: the candidates in their
\* order, up to the first that decode_with_config accepts
RECURSIVE decode_candidates(_, _, _, _, _)
decode_candidates(st, codec, t, cands, i) ==
    IF i > Len(cands) THEN [st EXCEPT !.ok = FALSE]
    ELSE The({IF r.ok THEN r ELSE decode_candidates(r, codec, t, cands, i + 1) :
                 r \in {decode_with_config(st, codec, t, cands[i])}})

Called(st, fn, t) == [st EXCEPT !.calls = @ \cup {[fn |-> fn, tex |-> t, args |-> NoArgs]}]

\* lines 1365-1367 with the brute-force path run whether the mapping path
\* has succeeded or not
decode_quest_texture_always_brute_force(st, codec, t, map) ==
    LET texture_path == TexPath(t)
        texture_info == find_texture_info(stem(texture_path), map)
        entered == Called(st, "decode_with_mapping", t)
        decode_with_mapping ==
            IF texture_info.found /\ DOMAIN texture_info.info # {}
            THEN decode_candidates(entered, codec, t,
                                   mapping_candidates(texture_path, texture_info.info), 1)
            ELSE [entered EXCEPT !.ok = FALSE]
        brute_force_decode(by_mapping) ==
            decode_candidates(Called(by_mapping, "brute_force_decode", t), codec, t,
                              brute_force_candidates(texture_path, getsize(st.fs, texture_path), 1), 1)
    IN The({The({[by_brute_force EXCEPT !.ok = by_mapping.ok \/ by_brute_force.ok] :
                    by_brute_force \in {brute_force_decode(by_mapping)}}) :
               by_mapping \in {decode_with_mapping}})

\* load_quest_texture, lines 1365-1367: decode_with_mapping (which returns
\* False at line 1077 when the lookup gives nothing or an empty entry), then
\* brute_force_decode if that has not succeeded
decode_quest_texture(st, codec, t, map) ==
    LET texture_path == TexPath(t)
        texture_info == find_texture_info(stem(texture_path), map)
        entered == Called(st, "decode_with_mapping", t)
        decode_with_mapping ==
            IF texture_info.found /\ DOMAIN texture_info.info # {}
            THEN decode_candidates(entered, codec, t,
                                   mapping_candidates(texture_path, texture_info.info), 1)
            ELSE [entered EXCEPT !.ok = FALSE]
        brute_force_decode(by_mapping) ==
            decode_candidates(Called(by_mapping, "brute_force_decode", t), codec, t,
                              brute_force_candidates(texture_path, getsize(st.fs, texture_path), 1), 1)
    IN The({IF by_mapping.ok THEN by_mapping ELSE brute_force_decode(by_mapping) :
               by_mapping \in {decode_with_mapping}})

-----------------------------------------------------------------------------
(* TextureLoader.load_texture and what it calls, run by worker threads.   *)
(* gui.image[t] is what the call for texture t has returned to the viewer: *)
(* "cached", "image", or the label of a placeholder; gui.decodes is what    *)
(* the decoder calls made so far have come to.                             *)

\* a worker that runs a load has, besides the engine's fields, the value of
\* success and what json.load returned
IdleLoader == IdleWorker @@ [success |-> FALSE, loaded |-> EmptyDict]

NoImages == [image |-> [t \in Tex |-> "none"], decodes |-> {}]

ReturnImage(w, label) ==
    /\ gui' = [gui EXCEPT !.image[worker[w].tex] = label]
    /\ worker' = [worker EXCEPT ![w] = IdleWorker]

\* lines 1334-1346: a cached preview that opens is returned; one that does
\* not open is removed and the texture is decoded again
load_texture(w) ==
    /\ worker[w].pc = "idle"
    /\ \E t \in job.selection :
          /\ gui.image[t] = "none" /\ ~Busy(t)
          /\ LET cache == cache_path(TexPath(t))
             IN IF exists(fs, cache) /\ ImageOpen(fs, cache).ok
                THEN /\ gui' = [gui EXCEPT !.image[t] = "cached"]
                     /\ UNCHANGED <<fs, worker>>
                ELSE /\ fs' = IF exists(fs, cache) THEN remove(fs, cache) ELSE fs
                     /\ worker' = [worker EXCEPT ![w] =
                            [IdleLoader EXCEPT !.tex = t,
                                               !.pc = IF job.is_quest THEN "load_quest_texture"
                                                      ELSE "load_dds_texture"]]
                     /\ UNCHANGED gui
    /\ UNCHANGED <<DECODE_CACHE, mapping, job, results, calls, codecLog>>

\* lines 1353-1367: the temporary directory, then the two decode paths.  A
\* mapping entry without width or height raises KeyError at line 1079, which
\* line 1382 turns into a placeholder without removing the directory.
load_quest_texture(w) ==
    /\ worker[w].pc = "load_quest_texture"
    /\ LET t == worker[w].tex
           texture_info == find_texture_info(stem(TexPath(t)), mapping)
           made == write(fs, temp_dir(t), <<>>)
       IN IF /\ texture_info.found /\ DOMAIN texture_info.info # {}
             /\ ~({"width", "height"} \subseteq DOMAIN texture_info.info)
          THEN /\ fs' = made
               /\ calls' = calls \cup {[fn |-> "decode_with_mapping", tex |-> t, args |-> NoArgs]}
               /\ ReturnImage(w, "ASTC Error")
               /\ UNCHANGED <<DECODE_CACHE, codecLog>>
          ELSE \E r \in {decode_quest_texture([ok |-> FALSE, fs |-> made, cache |-> DECODE_CACHE,
                                                log |-> codecLog, calls |-> calls,
                                                decodes |-> gui.decodes],
                                               job.codec, t, mapping)} :
                  /\ fs' = r.fs
                  /\ DECODE_CACHE' = r.cache
                  /\ codecLog' = r.log
                  /\ calls' = r.calls
                  /\ worker' = [worker EXCEPT ![w].pc = "finish", ![w].success = r.ok]
                  /\ gui' = [gui EXCEPT !.decodes = r.decodes]
    /\ UNCHANGED <<mapping, job, results>>

\* lines 1369-1381: the first PNG of the directory is opened, saved as the
\* preview if there is none yet, and the directory is removed
load_quest_texture_finish(w) ==
    /\ worker[w].pc = "finish"
    /\ LET t == worker[w].tex
           cache == cache_path(TexPath(t))
           png_files == {p \in DOMAIN fs : IsUnder(p, temp_dir(t)) /\ basename(p).ext = ".png"}
       IN IF worker[w].success /\ png_files # {}
          THEN \E p \in png_files :
                  LET img == ImageOpen(fs, p)
                  IN IF img.ok
                     THEN /\ fs' = rmtree(IF exists(fs, cache) THEN fs
                                          ELSE write(fs, cache, MkPNG(img.width, img.height)),
                                          temp_dir(t))
                          /\ ReturnImage(w, "image")
                     ELSE /\ ReturnImage(w, "ASTC Error")
                          /\ UNCHANGED fs
          ELSE /\ fs' = rmtree(fs, temp_dir(t))
               /\ ReturnImage(w, "ASTC Decode Failed")
    /\ UNCHANGED <<DECODE_CACHE, mapping, job, results, calls, codecLog>>

\* load_dds_texture, lines 1387-1400: PIL opens the file, or texconv is
\* tried.  No file of the runs has a DX10 header, so is_problematic is False.
load_dds_texture(w) ==
    /\ worker[w].pc = "load_dds_texture"
    /\ LET dds_path == TexPath(worker[w].tex)
           cache == cache_path(dds_path)
           img == ImageOpen(fs, dds_path)
       IN IF img.ok
          THEN /\ fs' = IF exists(fs, cache) THEN fs ELSE write(fs, cache, MkPNG(img.width, img.height))
               /\ ReturnImage(w, "image")
          ELSE /\ worker' = [worker EXCEPT ![w].pc = "load_with_texconv"]
               /\ UNCHANGED <<fs, gui>>
    /\ UNCHANGED <<DECODE_CACHE, mapping, job, results, calls, codecLog>>

\* the texconv process of load_with_texconv under the stub
TexconvOutcome(stub) ==
    IF stub = "ok_all" THEN [returncode |-> 0, output |-> "large", hangs |-> FALSE]
    ELSE IF stub = "hangs" THEN [returncode |-> 0, output |-> "none", hangs |-> TRUE]
    ELSE [returncode |-> 1, output |-> "none", hangs |-> FALSE]

TexconvPreviewCall(w, tool) ==
    [tool |-> tool, tex |-> worker[w].tex, width |-> 0, height |-> 0, block_w |-> 0, block_h |-> 0,
     target_size |-> PyNone]

\* load_with_texconv, lines 1408-1452: two invocations without a timeout;
\* the temporary input and directory are gone when the call returns.  A
\* process that never exits leaves the call waiting at line 1428.
load_with_texconv(w) ==
    /\ worker[w].pc = "load_with_texconv"
    /\ LET cache == cache_path(TexPath(worker[w].tex))
           process == TexconvOutcome(job.codec)
           first == run_hidden_command(process, call_timeout("texconv -ft png"))
           second == run_hidden_command(process, call_timeout("texconv decode"))
       IN IF ~first.returns
          THEN /\ codecLog' = codecLog \cup {TexconvPreviewCall(w, "texconv -ft png")}
               /\ worker' = [worker EXCEPT ![w].pc = "waiting"]
               /\ UNCHANGED <<fs, gui>>
          ELSE /\ codecLog' = codecLog \cup {TexconvPreviewCall(w, "texconv -ft png"),
                                            TexconvPreviewCall(w, "texconv decode")}
               /\ IF process.output # "none"
                  THEN /\ fs' = IF exists(fs, cache) THEN fs ELSE write(fs, cache, MkPNG(4, 4))
                       /\ ReturnImage(w, "image")
                  ELSE /\ ReturnImage(w, "texconv failed")
                       /\ UNCHANGED fs
    /\ UNCHANGED <<DECODE_CACHE, mapping, job, results, calls>>

-----------------------------------------------------------------------------
(* ASTCTools.load_decode_cache run next to the loads *)

\* load_decode_cache, lines 1175-1178 up to the value json.load returns
load_decode_cache_read(w) ==
    /\ worker[w].pc = "idle"
    /\ LET Reloads == {c \in calls : c.fn = "load_decode_cache"}
       IN /\ Cardinality(Reloads) < job.reloads
          /\ calls' = calls \cup {[fn |-> "load_decode_cache", tex |-> "",
                                   args |-> [NoArgs EXCEPT !.nargs = Cardinality(Reloads) + 1]]}
    /\ LET parsed == IF exists(fs, CACHE_FILE) THEN json_load(fs[CACHE_FILE]) ELSE JsonError
       IN IF parsed.ok
          THEN worker' = [worker EXCEPT ![w] = [IdleLoader EXCEPT !.pc = "assign",
                                                   !.loaded = parsed.value]]
          ELSE UNCHANGED worker
    /\ UNCHANGED <<fs, DECODE_CACHE, mapping, job, results, codecLog, gui>>

\* line 1178: the global is rebound
load_decode_cache_assign(w) ==
    /\ worker[w].pc = "assign"
    /\ DECODE_CACHE' = worker[w].loaded
    /\ worker' = [worker EXCEPT ![w] = IdleWorker]
    /\ UNCHANGED <<fs, mapping, job, results, calls, codecLog, gui>>

\* sizes of the large blobs: a configuration's expected size, the edges of
\* the tolerance around it, and a size near no configuration
BlobSizes == {0, 524288, 524388, 524389, 130972}

InitResolve ==
    /\ job \in {[selection |-> X, codec |-> st, file |-> f, blob |-> n, is_quest |-> TRUE,
                  reloads |-> IF f = "missing" THEN 0 ELSE MaxReload] :
                   X \in Selections(QuestTex),
                   st \in {"fails", "ok_8x8", "ok_6x6", "ok_4x4", "ok_all", "ok_exact"},
                   f \in {"missing", "saved", "truncated"}, n \in BlobSizes}
    /\ job.blob # 0 => job.file = "missing" /\ job.selection \subseteq {"q2", "q3"}
    /\ job.file # "missing" => job.codec \in {"ok_8x8", "ok_all"}
    \* q2 and q3 hold job.blob zero bytes when that is not 0
    /\ LET QuestFiles == [p \in {TexPath(t) : t \in QuestTex} |->
                             IF job.blob # 0 /\ p \in {TexPath("q2"), TexPath("q3")}
                             THEN <<-job.blob>> ELSE TexFiles[p]]
       IN fs = IF job.file = "missing" THEN QuestFiles
               ELSE IF job.file = "saved" THEN QuestFiles @@ (CACHE_FILE :> json_dump(InitCache))
               ELSE QuestFiles @@ (CACHE_FILE :> SubSeq(json_dump(InitCache), 1, 7))
    /\ DECODE_CACHE = EmptyDict
    \* q4's entry has no width, q5_d is found under q5, q3 has no entry
    /\ mapping = (<<"q1">> :> [width |-> 8, height |-> 8]) @@ (<<"q2">> :> [width |-> 8, height |-> 8])
                  @@ (<<"q4">> :> [height |-> 4]) @@ (<<"q5">> :> [width |-> 8, height |-> 4])
    /\ worker = [w \in Workers |-> IdleWorker]
    /\ results = [t \in Tex |-> NoResult]
    /\ calls = {}
    /\ codecLog = {}
    /\ gui = NoImages

NextResolve ==
    \E w \in Workers :
        \/ load_texture(w)
        \/ load_quest_texture(w)
        \/ load_quest_texture_finish(w)
        \/ load_decode_cache_read(w)
        \/ load_decode_cache_assign(w)

SpecResolve == InitResolve /\ [][NextResolve]_vars

-----------------------------------------------------------------------------
(* A session of the viewer on its current texture: the preview is loaded  *)
(* by a worker thread and, for a Quest texture, a replacement is run.  The *)
(* preview cache directory holds a preview for the texture, or a file that *)
(* PIL cannot open, or none.                                               *)

CachedPreviews(X, cached) ==
    [p \in {cache_path(TexPath(t)) : t \in (IF cached = "none" THEN {} ELSE X)} |->
        IF cached = "valid" THEN MkPNG(2, 2) ELSE SubSeq(MkPNG(2, 2), 1, 10)]

InitSession ==
    /\ job \in {[is_quest |-> t \in QuestTex, selection |-> {t}, codec |-> st, cached |-> c,
                 replacement |-> SKIN_PNG, replacement_size |-> PyNone] :
                   t \in Tex, st \in {"fails", "hangs", "ok_6x6", "ok_all"},
                   c \in {"none", "valid", "truncated"}}
    \* the files of the selected textures and the replacement image
    /\ fs = [p \in {TexPath(t) : t \in job.selection} \cup {SKIN_PNG} |-> InitFiles[p]]
               @@ CachedPreviews(job.selection, job.cached)
    /\ DECODE_CACHE = EmptyDict
    /\ mapping = InitMapping
    /\ worker = [w \in Workers |-> IdleWorker]
    /\ results = [t \in Tex |-> NoResult]
    /\ calls = {}
    /\ codecLog = {}
    /\ gui = NoImages

NextSession ==
    \E w \in Workers :
        \/ load_texture(w)
        \/ load_quest_texture(w)
        \/ load_quest_texture_finish(w)
        \/ load_dds_texture(w)
        \/ load_with_texconv(w)
        \/ replace_quest_texture(w)
        \/ encode_texture(w)
        \/ replace_quest_texture_stage(w)

SpecSession == InitSession /\ [][NextSession]_vars

\* the step of worker w in which decode_with_config stores a record
Stores(w) ==
    worker[w].pc = "load_quest_texture" /\ worker'[w].pc = "finish" /\ worker'[w].success

C19_CacheWritesSerialized ==
    [][\A w1, w2 \in Workers :
          (w1 # w2 /\ worker[w1].pc = "assign") =>
              ~(Stores(w2) \/ (worker[w2].pc = "assign" /\ worker'[w2].pc = "idle"))]_vars

\* C20: once every call has returned, nothing that a call created in the
\* temporary directory is left.
C20_NoTemporaryArtifactsRemain ==
    (\A w \in Workers : worker[w].pc = "idle") =>
        \A p \in DOMAIN fs : ~IsUnder(p, TEMP)

-----------------------------------------------------------------------------
(* The resolver's two paths *)

\* the step of worker w that runs decode_with_mapping and brute_force_decode
Resolves(w) == worker[w].pc = "load_quest_texture" /\ worker'[w].pc = "finish"

\* the decoder calls of a set of log entries made for texture t by the
\* mapping path (output <stem>.png) and by the brute-force path
MappingCalls(log, t) == {c \in log : c.tex = t /\ c.out = Comp(TexStem(t), ".png")}
BruteForceCalls(log, t) == {c \in log : c.tex = t /\ c.out # Comp(TexStem(t), ".png")}

BlockOf(c) == <<c.block_w, c.block_h>>

\* C22: a resolution of a texture with a mapping entry calls the decoder
\* with the entry's width and height for the block sizes of a prefix of the
\* table; every call but the last of the prefix was rejected, whatever it
\* returned; the prefix stops short of the table's end only at an accepted
\* call; when a call was accepted the resolution succeeds and the cache
\* holds under the file stem exactly the entry's width and height, that
\* call's block size and the file's byte length.  A decoder that validates
\* 8x8 only gives block size (8,8).
C22_MappingPathFirstValidInOrder ==
    [][\A w \in Workers :
          LET t == worker[w].tex
              name == TexStem(t)
              texture_info == find_texture_info(name, mapping)
              made == MappingCalls(gui'.decodes \ gui.decodes, t)
              table == get_common_block_sizes
          IN (Resolves(w) /\ texture_info.found) =>
                /\ \A c \in made : c.width = texture_info.info.width
                                     /\ c.height = texture_info.info.height
                /\ \E n \in 1..Len(table) :
                      /\ {BlockOf(c) : c \in made} = {table[i] : i \in 1..n}
                      /\ Cardinality(made) = n
                      /\ \A c \in made : c.accepted <=> (BlockOf(c) = table[n] /\ worker'[w].success
                                                           /\ BruteForceCalls(gui'.decodes \ gui.decodes, t) = {})
                      /\ n < Len(table) => \E c \in made : c.accepted
                /\ \A c \in made :
                      c.accepted =>
                          /\ name \in DOMAIN DECODE_CACHE'
                          /\ DECODE_CACHE'[name] =
                                 Record(texture_info.info.width, texture_info.info.height,
                                        c.block_w, c.block_h, getsize(fs, TexPath(t)))
                          /\ job.codec = "ok_8x8" => BlockOf(c) = <<8, 8>>]_vars

\* a resolution has gone past a timeout, a missing output file and, for
\* another decoder, an undersized output and a nonzero exit, and has stored
\* the block size that came after them
C22_Witness ==
    /\ job.codec = "ok_6x6"
    /\ gui.image["q1"] = "image"
    /\ \E c \in MappingCalls(gui.decodes, "q1") : BlockOf(c) = <<4, 4>> /\ c.returncode = -1 /\ ~c.accepted
    /\ \E c \in MappingCalls(gui.decodes, "q1") :
          BlockOf(c) = <<8, 8>> /\ c.returncode = 0 /\ c.output = "none" /\ ~c.accepted
    /\ <<"q1">> \in DOMAIN DECODE_CACHE
    /\ DECODE_CACHE[<<"q1">>] = Record(8, 8, 6, 6, 32)

\* the place in the table of the configuration a brute-force call was made for
ConfigIndex(c) ==
    CHOOSE i \in 1..Len(configurations) :
        c.out = Comp(TexStem(c.tex) \o <<"_BF_", configurations[i][5]>>, ".png")

\* the places of the configurations whose expected size is within the
\* tolerance of a blob of the given size
WithinTolerance(size) ==
    {i \in 1..Len(configurations) :
        LET c == configurations[i]
            expected_size == calculate_astc_size(c[1], c[2], c[3], c[4])
        IN expected_size - size <= BRUTE_FORCE_TOLERANCE /\ size - expected_size <= BRUTE_FORCE_TOLERANCE}

\* C23: a resolution calls the decoder for no configuration whose expected
\* size is more than 100 bytes from the blob's length; the brute-force calls
\* it makes are for the configurations within tolerance in table order up to
\* the first accepted one, whose width, height and block size are cached with
\* the blob's length; for a blob of 524288 bytes and a decoder that
\* validates everything that is 2048x1024 at 8x8, not 1024x512 at 4x4.
C23_BruteForceWithinToleranceInOrder ==
    [][\A w \in Workers :
          LET t == worker[w].tex
              size == getsize(fs, TexPath(t))
              made == BruteForceCalls(gui'.decodes \ gui.decodes, t)
              tried == {ConfigIndex(c) : c \in made}
          IN Resolves(w) =>
                /\ tried \subseteq WithinTolerance(size)
                /\ Cardinality(made) = Cardinality(tried)
                /\ \A c \in made :
                      /\ <<c.width, c.height, c.block_w, c.block_h>>
                            = SubSeq(configurations[ConfigIndex(c)], 1, 4)
                      /\ {i \in WithinTolerance(size) : i < ConfigIndex(c)} \subseteq tried
                      /\ c.accepted <=> (worker'[w].success /\ (\A i \in tried : i <= ConfigIndex(c)))
                      /\ c.accepted =>
                            DECODE_CACHE'[TexStem(t)] = Record(c.width, c.height, c.block_w, c.block_h, size)
                /\ (~worker'[w].success) => tried = WithinTolerance(size)
                /\ (job.codec = "ok_all" /\ size = 524288 /\ made # {}) =>
                      /\ worker'[w].success
                      /\ DECODE_CACHE'[TexStem(t)] = Record(2048, 1024, 8, 8, 524288)]_vars

\* a blob of 524288 bytes without a mapping entry has been resolved by a
\* decoder that validates everything, in one call
C23_Witness ==
    /\ job.codec = "ok_all" /\ job.blob = 524288
    /\ gui.image["q3"] = "image"
    /\ Cardinality(BruteForceCalls(gui.decodes, "q3")) = 1
    /\ DECODE_CACHE[<<"q3">>] = Record(2048, 1024, 8, 8, 524288)

\* C24: every resolution enters decode_with_mapping; it enters
\* brute_force_decode if and only if the lookup gave no entry (or an empty
\* one) or the decoder was called for all thirteen block sizes and rejected
\* each; the resolution succeeds exactly when one of its calls was accepted;
\* and a resolution that has not succeeded ends with the placeholder
\* "ASTC Decode Failed" returned and the worker free again.
C24_MappingThenBruteForceThenPlaceholder ==
    [][\A w \in Workers :
          LET t == worker[w].tex
              texture_info == find_texture_info(TexStem(t), mapping)
              hit == texture_info.found /\ DOMAIN texture_info.info # {}
              entered == {c.fn : c \in {x \in calls' \ calls : x.tex = t}}
              made == MappingCalls(gui'.decodes \ gui.decodes, t)
          IN /\ Resolves(w) =>
                  /\ "decode_with_mapping" \in entered
                  /\ "brute_force_decode" \in entered
                        <=> \/ ~hit
                            \/ /\ Cardinality(made) = Len(get_common_block_sizes)
                               /\ \A c \in made : ~c.accepted
                  /\ worker'[w].success <=> \E c \in gui'.decodes \ gui.decodes : c.tex = t /\ c.accepted
                  /\ "brute_force_decode" \notin entered =>
                        BruteForceCalls(gui'.decodes \ gui.decodes, t) = {}
             /\ (worker[w].pc = "finish" /\ ~worker[w].success) =>
                  (worker'[w] # worker[w] =>
                      /\ worker'[w].pc = "idle"
                      /\ gui'.image[t] = "ASTC Decode Failed")]_vars

\* a blob with a mapping entry has been resolved by brute force after all
\* thirteen block sizes had been rejected
C24_Witness ==
    /\ job.codec = "ok_exact" /\ job.blob = 524288
    /\ gui.image["q2"] = "image"
    /\ Cardinality({c \in MappingCalls(gui.decodes, "q2") : ~c.accepted}) = Len(get_common_block_sizes)
    /\ [fn |-> "brute_force_decode", tex |-> "q2", args |-> NoArgs] \in calls
    /\ DECODE_CACHE[<<"q2">>] = Record(2048, 1024, 8, 8, 524288)

\* the PNG files in the temporary directory of texture t
DecodedFiles(t) == {p \in DOMAIN fs : IsUnder(p, temp_dir(t)) /\ basename(p).ext = ".png"}

\* C25: a decoder call was accepted if and only if the decoder exited with
\* code 0 and left an output file of more than 1000 bytes ("large"; "small"
\* is a file of exactly 1000 bytes, "none" no file); and when the resolver
\* has returned, the PNG files in the texture's temporary directory are the
\* outputs of the accepted calls and nothing else.
C25_AcceptedIffValidAndRejectedRemoved ==
    /\ \A c \in gui.decodes : c.accepted <=> (c.returncode = 0 /\ c.output = "large")
    /\ \A w \in Workers :
          worker[w].pc = "finish" =>
              LET t == worker[w].tex
              IN /\ DecodedFiles(t) =
                        {join(temp_dir(t), c.out) : c \in {x \in gui.decodes : x.tex = t /\ x.accepted}}
                 /\ worker[w].success <=> DecodedFiles(t) # {}
                 /\ \A p \in DecodedFiles(t) : getsize(fs, p) > DECODE_MIN_SIZE

\* the resolver has returned success for a blob after a call that exited
\* with code 1 and left a large output file, and one PNG is there
C25_Witness ==
    \E w \in Workers :
        /\ worker[w].pc = "finish" /\ worker[w].success /\ worker[w].tex = "q3"
        /\ \E c \in gui.decodes : c.tex = "q3" /\ ~c.accepted /\ c.returncode = 1 /\ c.output = "large"
        /\ Cardinality(DecodedFiles("q3")) = 1

-----------------------------------------------------------------------------
(* The session: timeouts, the parameter cache and the preview cache *)

\* C21: every external codec invocation made so far was issued with a
\* finite timeout, and no worker is waiting for a process that has no
\* timeout to end it.
C21_EveryInvocationHasTimeout ==
    /\ \A c \in codecLog : call_timeout(c.tool) # PyNone
    /\ \A w \in Workers : worker[w].pc # "waiting"

\* the decoder calls accepted among a set of outcomes
Accepted(decodes) == {c \in decodes : c.accepted}

\* C26: no step takes a key out of DECODE_CACHE; a step that changes it is
\* a resolution one of whose decoder calls was accepted, and what it does
\* is to put that call's record under the texture's stem, every other entry
\* staying as it was; so a resolution whose candidates were all rejected,
\* a replacement call, an encode and a staging step leave it as it is.
C26_CacheWrittenOnlyOnAcceptedCandidate ==
    [][/\ DOMAIN DECODE_CACHE \subseteq DOMAIN DECODE_CACHE'
       /\ DECODE_CACHE' # DECODE_CACHE =>
             \E w \in Workers :
                /\ Resolves(w)
                /\ \E c \in Accepted(gui'.decodes \ gui.decodes) :
                      DECODE_CACHE' = setitem(DECODE_CACHE, TexStem(c.tex),
                                              Record(c.width, c.height, c.block_w, c.block_h,
                                                     getsize(fs, TexPath(c.tex))))
       /\ (\E w \in Workers : Resolves(w) /\ Accepted(gui'.decodes \ gui.decodes) = {}) =>
             DECODE_CACHE' = DECODE_CACHE
       /\ (\/ \E c \in calls' \ calls : c.fn = "replace_quest_texture"
           \/ \E w \in Workers : worker[w].pc \in {"encode", "stage"} /\ worker'[w] # worker[w]) =>
             DECODE_CACHE' = DECODE_CACHE]_vars

\* a texture has been resolved after two rejected candidates and then
\* replaced, the replacement having failed, and its record is still there
C26_Witness ==
    /\ job.codec = "ok_6x6"
    /\ Cardinality({c \in gui.decodes : c.tex = "q1" /\ ~c.accepted}) = 2
    /\ results["q1"].done /\ ~results["q1"].ok
    /\ \E c \in codecLog : c.tool = "astcenc" /\ c.tex = "q1"
    /\ DECODE_CACHE = (<<"q1">> :> Record(8, 8, 6, 6, 32))

\* C27: a file that is in the preview cache directory stays there with the
\* bytes it has, whatever step is taken.
C27_PreviewCacheFilesProtected ==
    [][\A t \in Tex :
          LET p == cache_path(TexPath(t))
          IN exists(fs, p) => exists(fs', p) /\ fs'[p] = fs[p]]_vars

\* the parameters the engine has taken for texture t are those of record rec
EncodesWith(w, rec) ==
    /\ worker'[w].width = rec.width /\ worker'[w].height = rec.height
    /\ worker'[w].block_w = rec.block_w /\ worker'[w].block_h = rec.block_h
    /\ worker'[w].target_size = PyInt(rec.original_size)

\* C28: when replace_quest_texture is called for a texture that the
\* resolver has resolved, it goes on to encode with the width, height and
\* block size of the accepted decoder call and with the byte length the file
\* had then as target size, and the encoder is then invoked with them.
C28_EngineUsesResolvedRecord ==
    [][/\ \A c \in calls' \ calls :
             (c.fn = "replace_quest_texture" /\ Accepted({d \in gui.decodes : d.tex = c.tex}) # {}) =>
                 \E w \in Workers :
                    /\ worker[w].pc = "idle" /\ worker'[w].pc = "encode" /\ worker'[w].tex = c.tex
                    /\ \A d \in Accepted({x \in gui.decodes : x.tex = c.tex}) :
                          EncodesWith(w, Record(d.width, d.height, d.block_w, d.block_h,
                                                getsize(fs, TexPath(c.tex))))
                    /\ EncodesWith(w, DECODE_CACHE[TexStem(c.tex)])
       /\ \A w \in Workers :
             (worker[w].pc = "encode" /\ worker'[w].pc # "encode") =>
                 [tool |-> "astcenc", tex |-> worker[w].tex, width |-> worker[w].width,
                  height |-> worker[w].height, block_w |-> worker[w].block_w,
                  block_h |-> worker[w].block_h, target_size |-> worker[w].target_size]
                     \in codecLog']_vars

\* q5_d, whose mapping entry is under q5, has been resolved at 6x6 and the
\* encoder has been invoked for it with 8x4, 6x6 and 32 bytes
C28_Witness ==
    /\ job.codec = "ok_6x6"
    /\ DECODE_CACHE = (<<"q5", "_d">> :> Record(8, 4, 6, 6, 32))
    /\ [tool |-> "astcenc", tex |-> "q5", width |-> 8, height |-> 4, block_w |-> 6,
        block_h |-> 6, target_size |-> PyInt(32)] \in codecLog

-----------------------------------------------------------------------------
(* The engine and the two trees *)

\* C29: whatever replacements have run, the rebuild-output tree holds the
\* files it held at the start, each with the bytes it had: the engine reads
\* the descriptor under output_folder, copies it and patches the copy only.
C29_OutputTreeUntouched ==
    /\ \A p \in DOMAIN fs : IsUnder(p, OUT) => p \in DOMAIN InitFiles /\ fs[p] = InitFiles[p]
    /\ \A p \in DOMAIN InitFiles : IsUnder(p, OUT) => p \in DOMAIN fs

\* two replacements have succeeded and each staged descriptor differs from
\* the one in the rebuild-output tree
C29_Witness ==
    \E t1, t2 \in PcvrTex :
        /\ t1 # t2
        /\ \A t \in {t1, t2} :
              /\ results[t].done /\ results[t].ok
              /\ fs[StagedDescriptor(t)] # fs[OutDescriptor(t)]
              /\ fs[OutDescriptor(t)] = InitFiles[OutDescriptor(t)]

\* C30: when replace_pcvr_texture has returned failure for a texture, the
\* payload staging folder holds no file for that texture (it held none at
\* the start).
C30_FailedReplacementStagesNothing ==
    \A t \in PcvrTex :
        (results[t].done /\ ~results[t].ok) => ~exists(fs, StagedPayload(t))

====
